---- MODULE Spec2Model ----
(***************************************************************************)
(* Model of the calculation core of the Cortex Cost Calculator             *)
(* (streamlit/cortex_cost_calculator/streamlit_app.py): the data-maturity  *)
(* assessor, the confidence-interval calculator and the growth projection  *)
(* engine, each applied to bounded usage samples.                          *)
(*                                                                         *)
(* Numbers.  Python floats are modelled by exact arithmetic: small values  *)
(* are normalised fractions [num, den] over the integers; the compound     *)
(* growth values, which outgrow machine integers, are decimal numbers with *)
(* an arbitrary-precision numerator.  A DATE is a calendar day, modelled   *)
(* by its day number.                                                      *)
(***************************************************************************)
EXTENDS Integers, Sequences, FiniteSets, TLC

VARIABLES
    df,             \* the usage sample handed to the calculations
    last,           \* name of the function called last ("start": none yet)
    maturity,       \* result of assess_data_maturity(df)
    ci_in,          \* arguments of calculate_confidence_interval
    ci_out,         \* its result (lower, upper, variance_pct)
    gp_in,          \* arguments of calculate_growth_projection
    projection_df,  \* its result, a sequence of projection rows
    raised,         \* exception that escaped the last call ("": it returned)
    totals_df,      \* result of calculate_30day_totals(df)
    poc_in,         \* arguments of calculate_poc_to_prod_projection
    poc_out,        \* its result
    requests_df,    \* per-service table of the cost-per-user calculator
    metrics,        \* figures computed by a summary page
    forecast_in,    \* inputs of show_12_month_forecast besides df
    forecast,       \* what the forecast page computed and showed
    page,           \* what a projection page presented
    uploaded_file,  \* the CSV file given to load_data_from_csv
    now,            \* the clock (datetime.now()), in seconds
    proposal_in,    \* arguments of generate_proposal_text
    proposal_text,  \* the texts it returned, in the order of the calls
    latest_30d,     \* the per-service table of show_historical_analysis
    views,          \* how the snapshot query and the live query would end
    queried,        \* the sources fetch_data_from_views has queried, in order
    user_personas_simple  \* st.session_state.user_personas_simple (<<>>: not set)

\* the state of the calculations other than the three core functions
restVars == <<totals_df, poc_in, poc_out, requests_df, metrics, forecast_in, forecast>>

\* the state of the pages and of the session around the calculations
appVars == <<page, uploaded_file, now, proposal_in, proposal_text, latest_30d, views, queried,
            user_personas_simple>>

vars == <<df, last, maturity, ci_in, ci_out, gp_in, projection_df, raised, restVars, appVars>>

(***************************************************************************)
(* Bounds of the model                                                     *)
(***************************************************************************)
MaxDays == 31           \* longest daily sample (distinct dates)
MaxGap == 2             \* longest run of missing days inside a daily sample
MaxScatterRows == 3     \* rows of a free-form sample
MaxScatterDate == 5     \* latest day number of a free-form sample
MaxBase == 3            \* largest base value of an interval, in hundreds
MaxScoreArg == 110      \* largest confidence score handed to the interval calculator
MaxGrowthRows == 3      \* rows of a sample handed to the growth projection
MaxGrowthDate == 2      \* latest day number of such a sample
MaxCredits == 2         \* largest TOTAL_CREDITS of one of its rows
MaxUsers == 2           \* largest DAILY_UNIQUE_USERS of one of its rows
MaxMonths == 2          \* largest projection_months (besides the default 12)
MaxRollDays == 32       \* longest daily sample handed to the rolling totals
MaxRollRows == 2        \* rows of an uploaded sample handed to them
MaxRollDate == 2        \* latest day number of such an uploaded sample
MaxForecastPoints == 8  \* most distinct dates of a sample handed to the forecast page
MaxForecastMonths == 5  \* longest projection period tried on every such sample

(***************************************************************************)
(* Exact fractions                                                         *)
(***************************************************************************)
Abs(n) == IF n < 0 THEN -n ELSE n

RECURSIVE GCD(_, _)
GCD(a, b) == IF b = 0 THEN a ELSE GCD(b, a % b)

\* the fraction n/d (d # 0) in lowest terms with a positive denominator
R(n, d) ==
    LET g == GCD(Abs(n), Abs(d))
        s == IF d < 0 THEN -1 ELSE 1
    IN  [num |-> (s * n) \div g, den |-> (s * d) \div g]

RInt(n) == [num |-> n, den |-> 1]
RAdd(x, y) == R(x.num * y.den + y.num * x.den, x.den * y.den)
RSub(x, y) == R(x.num * y.den - y.num * x.den, x.den * y.den)
RMul(x, y) == R(x.num * y.num, x.den * y.den)
RDiv(x, y) == R(x.num * y.den, x.den * y.num)
RLe(x, y) == x.num * y.den <= y.num * x.den
RLt(x, y) == x.num * y.den < y.num * x.den
RMin(x, y) == IF RLt(y, x) THEN y ELSE x
RMax(x, y) == IF RLt(x, y) THEN y ELSE x
\* Python int(x): truncation toward zero
RTrunc(x) == IF x.num >= 0 THEN x.num \div x.den ELSE -((-x.num) \div x.den)

(***************************************************************************)
(* Usage samples (pandas DataFrame, or None)                               *)
(***************************************************************************)
None == [none |-> TRUE, rows |-> <<>>]
Frame(rows) == [none |-> FALSE, rows |-> rows]

UsageRow(date, service, users, operations, credits) ==
    [DATE |-> date, SERVICE_TYPE |-> service, DAILY_UNIQUE_USERS |-> users,
     TOTAL_OPERATIONS |-> operations, TOTAL_CREDITS |-> credits]

Services == {"Cortex Analyst", "Cortex Search"}

\* n distinct days with g days missing after the a-th day, latest day first
\* (the order the views return: ORDER BY date DESC), one row per day
DailyRows(n, a, g) ==
    [i \in 1..n |->
        LET k == n + 1 - i
        IN  UsageRow(IF k <= a THEN k ELSE k + g, "Cortex Functions", 1, 1, 1)]

DailySamples ==
    {DailyRows(n, n, 0) : n \in 0..MaxDays}
    \cup UNION {{DailyRows(n, a, g) : a \in 1..(n - 1), g \in 1..MaxGap} : n \in 2..MaxDays}

UniqueKeys(rows) ==
    \A i, j \in 1..Len(rows) :
        (rows[i].DATE = rows[j].DATE /\ rows[i].SERVICE_TYPE = rows[j].SERVICE_TYPE) => i = j

\* up to MaxScatterRows rows in any order, one per (date, service)
ScatterSamples ==
    LET rowSet == {UsageRow(d, s, 1, 1, 1) : d \in 1..MaxScatterDate, s \in Services}
    IN  {rows \in UNION {[1..k -> rowSet] : k \in 0..MaxScatterRows} : UniqueKeys(rows)}

MaturitySamples == {None} \cup {Frame(rows) : rows \in DailySamples \cup ScatterSamples}

(***************************************************************************)
(* assess_data_maturity                                                    *)
(***************************************************************************)
DATA_MATURITY_THRESHOLDS == [minimum |-> 3, developing |-> 7, reliable |-> 14, confident |-> 30]

\* df['DATE'].unique()
DateValues(frame) == {frame.rows[i].DATE : i \in 1..Len(frame.rows)}

SetMax(S) == CHOOSE x \in S : \A y \in S : y <= x
SetMin(S) == CHOOSE x \in S : \A y \in S : x <= y

days_of_data(frame) == Cardinality(DateValues(frame))

\* mutant: the span counted without its last day
data_completeness_exclusive(frame) ==
    IF days_of_data(frame) > 1
    THEN LET date_range == SetMax(DateValues(frame)) - SetMin(DateValues(frame))
         IN  IF date_range > 0 THEN R(days_of_data(frame), date_range) ELSE RInt(0)
    ELSE RInt(1)

data_completeness(frame) ==
    IF days_of_data(frame) > 1
    THEN LET date_range == (SetMax(DateValues(frame)) - SetMin(DateValues(frame))) + 1
         IN  IF date_range > 0 THEN R(days_of_data(frame), date_range) ELSE RInt(0)
    ELSE RInt(1)

\* mutant: the score rounded to the nearest integer instead of int()
confidence_score_rounded(days, completeness) ==
    LET day_score == RMul(RMin(R(days, DATA_MATURITY_THRESHOLDS.confident), RInt(1)), RInt(60))
        completeness_score == RMul(completeness, RInt(40))
        x == RAdd(day_score, completeness_score)
    IN  (2 * x.num + x.den) \div (2 * x.den)

\* mutant: the day ratio inverted (confident / days instead of days / confident)
confidence_score_inverted(days, completeness) ==
    LET day_score == RMul(RMin(R(DATA_MATURITY_THRESHOLDS.confident, days), RInt(1)), RInt(60))
        completeness_score == RMul(completeness, RInt(40))
    IN  RTrunc(RAdd(day_score, completeness_score))

confidence_score(days, completeness) ==
    LET day_score == RMul(RMin(R(days, DATA_MATURITY_THRESHOLDS.confident), RInt(1)), RInt(60))
        completeness_score == RMul(completeness, RInt(40))
    IN  RTrunc(RAdd(day_score, completeness_score))

Assessment(level, days, score, label, color, ready) ==
    [level |-> level, days |-> days, confidence_score |-> score,
     confidence_label |-> label, color |-> color, ready_for_projection |-> ready]

\* mutant: the minimum threshold compared with <= instead of <
assess_data_maturity_inclusive(frame) ==
    IF frame.none \/ frame.rows = <<>>
    THEN Assessment("none", 0, 0, "No Data", "red", FALSE)
    ELSE LET d == days_of_data(frame)
             score == confidence_score(d, data_completeness(frame))
         IN  IF d <= DATA_MATURITY_THRESHOLDS.minimum
             THEN Assessment("insufficient", d, score, "Insufficient", "red", FALSE)
             ELSE IF d < DATA_MATURITY_THRESHOLDS.developing
             THEN Assessment("developing", d, score, "Developing", "orange", TRUE)
             ELSE IF d < DATA_MATURITY_THRESHOLDS.reliable
             THEN Assessment("developing", d, score, "Improving", "yellow", TRUE)
             ELSE IF d < DATA_MATURITY_THRESHOLDS.confident
             THEN Assessment("reliable", d, score, "Reliable", "lightgreen", TRUE)
             ELSE Assessment("confident", d, score, "High Confidence", "green", TRUE)

\* mutant: the insufficient branch clips the score to a level-specific range
assess_data_maturity_clipped(frame) ==
    IF frame.none \/ frame.rows = <<>>
    THEN Assessment("none", 0, 0, "No Data", "red", FALSE)
    ELSE LET d == days_of_data(frame)
             score == confidence_score(d, data_completeness(frame))
         IN  IF d < DATA_MATURITY_THRESHOLDS.minimum
             THEN Assessment("insufficient", d, IF score > 20 THEN 20 ELSE score,
                             "Insufficient", "red", FALSE)
             ELSE IF d < DATA_MATURITY_THRESHOLDS.developing
             THEN Assessment("developing", d, score, "Developing", "orange", TRUE)
             ELSE IF d < DATA_MATURITY_THRESHOLDS.reliable
             THEN Assessment("developing", d, score, "Improving", "yellow", TRUE)
             ELSE IF d < DATA_MATURITY_THRESHOLDS.confident
             THEN Assessment("reliable", d, score, "Reliable", "lightgreen", TRUE)
             ELSE Assessment("confident", d, score, "High Confidence", "green", TRUE)

assess_data_maturity(frame) ==
    IF frame.none \/ frame.rows = <<>>
    THEN Assessment("none", 0, 0, "No Data", "red", FALSE)
    ELSE LET d == days_of_data(frame)
             score == confidence_score(d, data_completeness(frame))
         IN  IF d < DATA_MATURITY_THRESHOLDS.minimum
             THEN Assessment("insufficient", d, score, "Insufficient", "red", FALSE)
             ELSE IF d < DATA_MATURITY_THRESHOLDS.developing
             THEN Assessment("developing", d, score, "Developing", "orange", TRUE)
             ELSE IF d < DATA_MATURITY_THRESHOLDS.reliable
             THEN Assessment("developing", d, score, "Improving", "yellow", TRUE)
             ELSE IF d < DATA_MATURITY_THRESHOLDS.confident
             THEN Assessment("reliable", d, score, "Reliable", "lightgreen", TRUE)
             ELSE Assessment("confident", d, score, "High Confidence", "green", TRUE)

(***************************************************************************)
(* calculate_confidence_interval                                           *)
(***************************************************************************)
\* an optional argument: <<>> is Python's None, <<v>> the value v
NoneArg == <<>>
Some(v) == <<v>>

\* mutant: the custom variance tested for truth instead of "is not None"
calculate_confidence_interval_truthy(base_value, score, custom_variance) ==
    LET variance_pct ==
            IF custom_variance # NoneArg /\ custom_variance[1] # RInt(0)
            THEN custom_variance[1]
            ELSE RMax(R(5, 100), RSub(R(30, 100), RMul(R(score, 100), R(25, 100))))
    IN  [lower |-> RMul(RInt(base_value), RSub(RInt(1), variance_pct)),
         upper |-> RMul(RInt(base_value), RAdd(RInt(1), variance_pct)),
         variance_pct |-> variance_pct]

\* mutant: the score term added instead of subtracted
calculate_confidence_interval_added(base_value, score, custom_variance) ==
    LET variance_pct ==
            IF custom_variance # NoneArg
            THEN custom_variance[1]
            ELSE RMax(R(5, 100), RAdd(R(30, 100), RMul(R(score, 100), R(25, 100))))
    IN  [lower |-> RMul(RInt(base_value), RSub(RInt(1), variance_pct)),
         upper |-> RMul(RInt(base_value), RAdd(RInt(1), variance_pct)),
         variance_pct |-> variance_pct]

\* mutant: the mapping of the score reversed (0 -> 5%, 100 -> 30%)
calculate_confidence_interval_reversed(base_value, score, custom_variance) ==
    LET variance_pct ==
            IF custom_variance # NoneArg
            THEN custom_variance[1]
            ELSE RMin(R(30, 100), RAdd(R(5, 100), RMul(R(score, 100), R(25, 100))))
    IN  [lower |-> RMul(RInt(base_value), RSub(RInt(1), variance_pct)),
         upper |-> RMul(RInt(base_value), RAdd(RInt(1), variance_pct)),
         variance_pct |-> variance_pct]

calculate_confidence_interval(base_value, score, custom_variance) ==
    LET variance_pct ==
            IF custom_variance # NoneArg
            THEN custom_variance[1]
            ELSE RMax(R(5, 100), RSub(R(30, 100), RMul(R(score, 100), R(25, 100))))
    IN  [lower |-> RMul(RInt(base_value), RSub(RInt(1), variance_pct)),
         upper |-> RMul(RInt(base_value), RAdd(RInt(1), variance_pct)),
         variance_pct |-> variance_pct]


(***************************************************************************)
(* Arbitrary-precision integers and decimal values (compound growth)       *)
(***************************************************************************)
\* an integer: its sign and its decimal digits, least significant first,
\* without leading zeros (zero has no digits)
RECURSIVE NatDigits(_)
NatDigits(n) == IF n = 0 THEN <<>> ELSE <<n % 10>> \o NatDigits(n \div 10)

BigZero == [neg |-> FALSE, mag |-> <<>>]
BigOfInt(n) == [neg |-> n < 0, mag |-> NatDigits(Abs(n))]

RECURSIVE MulDigits(_, _, _)
MulDigits(mag, k, carry) ==
    IF mag = <<>>
    THEN NatDigits(carry)
    ELSE LET t == Head(mag) * k + carry
         IN  <<t % 10>> \o MulDigits(Tail(mag), k, t \div 10)

BigMulInt(x, k) ==
    IF k = 0 \/ x.mag = <<>>
    THEN BigZero
    ELSE [neg |-> (x.neg # (k < 0)), mag |-> MulDigits(x.mag, Abs(k), 0)]

RECURSIVE BigPow(_, _)
BigPow(k, m) == IF m = 0 THEN BigOfInt(1) ELSE BigMulInt(BigPow(k, m - 1), k)

\* x * 10^z
BigShift(x, z) == IF x.mag = <<>> THEN x ELSE [neg |-> x.neg, mag |-> [i \in 1..z |-> 0] \o x.mag]
BigPositive(x) == ~x.neg /\ x.mag # <<>>
BigNegative(x) == x.neg /\ x.mag # <<>>

\* a value n / (k * 100^e): n an arbitrary-precision integer, k > 0, e >= 0
Num(n, k, e) == [n |-> n, k |-> k, e |-> e]
NumOfInt(i) == Num(BigOfInt(i), 1, 0)
NumMulInt(x, i) == Num(BigMulInt(x.n, i), x.k, x.e)
\* x * (a fraction num/den of integers, den > 0)
NumMulR(x, r) == Num(BigMulInt(x.n, r.num), x.k * r.den, x.e)
\* x * (an amount of c hundredths)
NumMulHundredths(x, c) == Num(BigMulInt(x.n, c), x.k, x.e + 1)
NumPositive(x) == BigPositive(x.n)
NumNegative(x) == BigNegative(x.n)
\* equality of values
NumEq(x, y) ==
    BigShift(BigMulInt(x.n, y.k), 2 * y.e) = BigShift(BigMulInt(y.n, x.k), 2 * x.e)
\* the quotient x / y (y # 0) as a pair of integers
NumQuot(x, y) ==
    [num |-> BigShift(BigMulInt(x.n, y.k), 2 * y.e),
     den |-> BigShift(BigMulInt(y.n, x.k), 2 * x.e)]
QuotZero == [num |-> BigZero, den |-> BigOfInt(1)]

(***************************************************************************)
(* calculate_growth_projection                                             *)
(* growth_rate is given in hundredths (25 stands for 0.25), credit_cost in *)
(* hundredths of a dollar (300 stands for 3.00).                           *)
(***************************************************************************)
\* pandas sorts the groups of a groupby by their key
ServiceOrder == <<"Cortex Analyst", "Cortex Functions", "Cortex Search">>

RECURSIVE SumOver(_, _)
SumOver(S, f) ==
    IF S = {} THEN 0
    ELSE LET x == CHOOSE y \in S : TRUE IN f[x] + SumOver(S \ {x}, f)

RECURSIVE SeqSum(_)
SeqSum(q) == IF q = <<>> THEN 0 ELSE Head(q) + SeqSum(Tail(q))

ColumnOfService(frame, service, column) ==
    LET rs == SelectSeq(frame.rows, LAMBDA r : r.SERVICE_TYPE = service)
    IN  [i \in 1..Len(rs) |-> rs[i][column]]

\* the aggregation without its grouping: every service gets the figures of all rows
baseline_ungrouped(frame) ==
    LET keys == SelectSeq(ServiceOrder,
                          LAMBDA sv : \E i \in 1..Len(frame.rows) : frame.rows[i].SERVICE_TYPE = sv)
    IN  [j \in 1..Len(keys) |->
            [SERVICE_TYPE |-> keys[j],
             TOTAL_CREDITS |-> SeqSum([i \in 1..Len(frame.rows) |-> frame.rows[i].TOTAL_CREDITS]),
             DAILY_UNIQUE_USERS |->
                 R(SeqSum([i \in 1..Len(frame.rows) |-> frame.rows[i].DAILY_UNIQUE_USERS]),
                   Len(frame.rows))]]

\* df.groupby('SERVICE_TYPE').agg({'TOTAL_CREDITS': 'sum', 'DAILY_UNIQUE_USERS': 'mean'})
baseline(frame) ==
    LET keys == SelectSeq(ServiceOrder,
                          LAMBDA sv : \E i \in 1..Len(frame.rows) : frame.rows[i].SERVICE_TYPE = sv)
    IN  [j \in 1..Len(keys) |->
            LET users == ColumnOfService(frame, keys[j], "DAILY_UNIQUE_USERS")
            IN  [SERVICE_TYPE |-> keys[j],
                 TOTAL_CREDITS |-> SeqSum(ColumnOfService(frame, keys[j], "TOTAL_CREDITS")),
                 DAILY_UNIQUE_USERS |-> R(SeqSum(users), Len(users))]]

\* mutant: the exponent one too small (the first month shows the baseline)
growth_factor_late(growth_rate, month) == Num(BigPow(100 + growth_rate, month - 1), 1, month - 1)

\* mutant: the factor grows linearly, (1 + rate) * month
growth_factor_linear(growth_rate, month) == Num(BigOfInt((100 + growth_rate) * month), 1, 1)

\* (1 + growth_rate) ** month
growth_factor(growth_rate, month) == Num(BigPow(100 + growth_rate, month), 1, month)

ProjectionRow(month, service, growth_rate, credit_cost) ==
    LET factor == growth_factor(growth_rate, month)
        projected_credits == NumMulInt(factor, service.TOTAL_CREDITS)
        projected_users == NumMulR(factor, service.DAILY_UNIQUE_USERS)
        projected_cost == NumMulHundredths(projected_credits, credit_cost)
    IN  [month |-> month,
         service_type |-> service.SERVICE_TYPE,
         projected_credits |-> projected_credits,
         projected_users |-> projected_users,
         projected_cost_usd |-> projected_cost,
         cost_per_user_usd |-> IF NumPositive(projected_users)
                               THEN NumQuot(projected_cost, projected_users)
                               ELSE QuotZero,
         growth_rate |-> growth_rate]

\* the two loops nested the other way round: services outside, months inside
calculate_growth_projection_by_service(frame, growth_rate, projection_months, credit_cost) ==
    LET base == baseline(frame)
        S == Len(base)
        months == IF projection_months > 0 THEN projection_months ELSE 0
    IN  [i \in 1..(months * S) |->
            ProjectionRow(((i - 1) % months) + 1, base[((i - 1) \div months) + 1],
                          growth_rate, credit_cost)]

calculate_growth_projection(frame, growth_rate, projection_months, credit_cost) ==
    LET base == baseline(frame)
        S == Len(base)
        months == IF projection_months > 0 THEN projection_months ELSE 0
    IN  [i \in 1..(months * S) |->
            ProjectionRow(((i - 1) \div S) + 1, base[((i - 1) % S) + 1], growth_rate, credit_cost)]

(***************************************************************************)
(* Float results that need not be finite (numpy semantics of a division)   *)
(***************************************************************************)
Finite(r) == [kind |-> "finite", val |-> r]
Inf == [kind |-> "inf", val |-> RInt(0)]
NegInf == [kind |-> "-inf", val |-> RInt(0)]
NaN == [kind |-> "nan", val |-> RInt(0)]

\* a / b on two finite columns or numpy scalars: x/0 is inf or -inf, 0/0 is NaN
np_divide(x, y) ==
    IF y.num # 0 THEN Finite(RDiv(x, y))
    ELSE IF x.num > 0 THEN Inf
    ELSE IF x.num < 0 THEN NegInf
    ELSE NaN

\* Series.fillna(value): replaces NaN, and only NaN
fillna(x, value) == IF x.kind = "nan" THEN Finite(value) ELSE x

(***************************************************************************)
(* calculate_30day_totals (lines 208-233)                                  *)
(***************************************************************************)
ROLLING_WINDOW == 30

\* the positions of the window that ends at position i (1-based)
rolling_late(n, window, i) == {j \in 1..n : i - window <= j /\ j <= i}
rolling(n, window, i) == {j \in 1..n : i - window + 1 <= j /\ j <= i}

\* x.rolling(window, min_periods=1).sum() and .mean()
rolling_sum(values, window) ==
    [i \in 1..Len(values) |->
        SumOver(rolling(Len(values), window, i), values)]
rolling_mean(values, window) ==
    [i \in 1..Len(values) |->
        R(SumOver(rolling(Len(values), window, i), values),
          Cardinality(rolling(Len(values), window, i)))]

\* df.sort_values('DATE', ascending=...): the sort is not stable, rows of one
\* date may come out in any order; an order is a sequence of row positions
RECURSIVE OrdersOf(_, _, _)
OrdersOf(rows, S, ascending) ==
    IF S = {} THEN {<<>>}
    ELSE LET first == {i \in S : \A j \in S :
                          IF ascending THEN rows[i].DATE <= rows[j].DATE
                          ELSE rows[i].DATE >= rows[j].DATE}
         IN  UNION {{<<i>> \o o : o \in OrdersOf(rows, S \ {i}, ascending)} : i \in first}
sort_values(rows, ascending) == OrdersOf(rows, 1..Len(rows), ascending)

\* groupby('SERVICE_TYPE')[column].transform(lambda x: x.rolling(...).sum()) or
\* (...).mean(): the rolling aggregate of each service's values in row order,
\* each result put back on its row
transform(rows, column, aggregate) ==
    [p \in 1..Len(rows) |->
        LET group == SelectSeq(rows, LAMBDA r : r.SERVICE_TYPE = rows[p].SERVICE_TYPE)
            rank == Cardinality({q \in 1..p : rows[q].SERVICE_TYPE = rows[p].SERVICE_TYPE})
            x == [i \in 1..Len(group) |-> group[i][column]]
        IN  IF aggregate = "sum" THEN rolling_sum(x, ROLLING_WINDOW)[rank]
            ELSE rolling_mean(x, ROLLING_WINDOW)[rank]]

\* the row with its four rolling columns
TotalsRow(row, credits, operations, users, cost_per_user) ==
    [DATE |-> row.DATE, SERVICE_TYPE |-> row.SERVICE_TYPE,
     DAILY_UNIQUE_USERS |-> row.DAILY_UNIQUE_USERS,
     TOTAL_OPERATIONS |-> row.TOTAL_OPERATIONS, TOTAL_CREDITS |-> row.TOTAL_CREDITS,
     credits_30d_total |-> credits, operations_30d_total |-> operations,
     users_30d_avg |-> users, cost_per_user_30d |-> cost_per_user]

\* asc and desc are the orders the two sorts produce
calculate_30day_totals(frame, asc, desc) ==
    IF frame.rows = <<>> THEN <<>>
    ELSE LET df_sorted == [p \in 1..Len(asc) |-> frame.rows[asc[p]]]
             credits == transform(df_sorted, "TOTAL_CREDITS", "sum")
             operations == transform(df_sorted, "TOTAL_OPERATIONS", "sum")
             users == transform(df_sorted, "DAILY_UNIQUE_USERS", "mean")
             out == [p \in 1..Len(asc) |->
                        TotalsRow(df_sorted[p], credits[p], operations[p], users[p],
                                  fillna(np_divide(RInt(credits[p]), users[p]), RInt(0)))]
         IN  [p \in 1..Len(desc) |-> out[desc[p]]]

(***************************************************************************)
(* calculate_poc_to_prod_projection (lines 22-27, 391-414)                 *)
(***************************************************************************)
LightPOC == "Light POC (5-10 users, exploratory)"
StandardPOC == "Standard POC (10-25 users, regular use)"
HeavyPOC == "Heavy POC (25+ users, production-like)"
Custom == "Custom"

POC_TO_PROD_MULTIPLIERS ==
    [k \in {LightPOC, StandardPOC, HeavyPOC, Custom} |->
        CASE k = LightPOC -> [user_mult |-> RInt(20), usage_mult |-> R(3, 2)]
          [] k = StandardPOC -> [user_mult |-> RInt(10), usage_mult |-> R(6, 5)]
          [] k = HeavyPOC -> [user_mult |-> RInt(4), usage_mult |-> RInt(1)]
          [] k = Custom -> [user_mult |-> RInt(1), usage_mult |-> RInt(1)]]

\* x or 1: None and 0 are falsy
OrOne_none_only(x) == IF x = NoneArg THEN RInt(1) ELSE x[1]
OrOne(x) == IF x = NoneArg \/ x[1].num = 0 THEN RInt(1) ELSE x[1]

\* the projection with the usage multiplier left out of the cost
PocProjection_users_only(current_monthly_cost, current_users, user_mult, usage_mult, cost_per_user) ==
    [current_users |-> current_users,
     projected_users |-> RMul(current_users, user_mult),
     user_multiplier |-> user_mult,
     usage_multiplier |-> usage_mult,
     current_monthly_cost |-> current_monthly_cost,
     projected_monthly_cost |-> RMul(current_monthly_cost, user_mult),
     projected_annual_cost |-> RMul(RMul(current_monthly_cost, user_mult), RInt(12)),
     cost_per_user |-> cost_per_user]

PocProjection(current_monthly_cost, current_users, user_mult, usage_mult, cost_per_user) ==
    [current_users |-> current_users,
     projected_users |-> RMul(current_users, user_mult),
     user_multiplier |-> user_mult,
     usage_multiplier |-> usage_mult,
     current_monthly_cost |-> current_monthly_cost,
     projected_monthly_cost |-> RMul(RMul(current_monthly_cost, user_mult), usage_mult),
     projected_annual_cost |->
         RMul(RMul(RMul(current_monthly_cost, user_mult), usage_mult), RInt(12)),
     cost_per_user |-> cost_per_user]

\* the division without its guard
calculate_poc_to_prod_projection_unguarded(current_monthly_cost, current_users, multiplier_key, custom_user_mult, custom_usage_mult) ==
    LET user_mult == IF multiplier_key = Custom THEN OrOne(custom_user_mult)
                     ELSE POC_TO_PROD_MULTIPLIERS[multiplier_key].user_mult
        usage_mult == IF multiplier_key = Custom THEN OrOne(custom_usage_mult)
                      ELSE POC_TO_PROD_MULTIPLIERS[multiplier_key].usage_mult
    IN  PocProjection(current_monthly_cost, current_users, user_mult, usage_mult,
                      np_divide(RMul(RMul(current_monthly_cost, user_mult), usage_mult),
                                RMul(current_users, user_mult)))

calculate_poc_to_prod_projection(current_monthly_cost, current_users, multiplier_key, custom_user_mult, custom_usage_mult) ==
    LET user_mult == IF multiplier_key = Custom THEN OrOne(custom_user_mult)
                     ELSE POC_TO_PROD_MULTIPLIERS[multiplier_key].user_mult
        usage_mult == IF multiplier_key = Custom THEN OrOne(custom_usage_mult)
                      ELSE POC_TO_PROD_MULTIPLIERS[multiplier_key].usage_mult
        projected_users == RMul(current_users, user_mult)
        projected_monthly_cost == RMul(RMul(current_monthly_cost, user_mult), usage_mult)
    IN  PocProjection(current_monthly_cost, current_users, user_mult, usage_mult,
                      IF RLt(RInt(0), projected_users)
                      THEN np_divide(projected_monthly_cost, projected_users)
                      ELSE Finite(RInt(0)))

(***************************************************************************)
(* Ratios computed by the pages                                            *)
(***************************************************************************)
\* Series.mean(): NaN for an empty column
mean(values) ==
    IF values = <<>> THEN NaN ELSE Finite(R(SeqSum(values), Len(values)))

\* x > 0 on a float: false for NaN
Positive(x) == x.kind = "inf" \/ (x.kind = "finite" /\ x.val.num > 0)

\* x * r and x / y on floats; here the operands are finite whenever the code
\* reaches the operation, NaN stands for any other case
FScale(x, r) == IF x.kind = "finite" THEN Finite(RMul(x.val, r)) ELSE NaN
FDiv(x, y) ==
    IF x.kind = "finite" /\ y.kind = "finite" THEN np_divide(x.val, y.val) ELSE NaN

Column(frame, column) == [i \in 1..Len(frame.rows) |-> frame.rows[i][column]]

\* show_cost_per_user_calculator, lines 2496-2515: one row per service;
\* credit_cost in cents
CostPerRequestTable(frame, credit_cost) ==
    LET keys == SelectSeq(ServiceOrder,
                          LAMBDA sv : \E i \in 1..Len(frame.rows) : frame.rows[i].SERVICE_TYPE = sv)
    IN  [j \in 1..Len(keys) |->
            LET ops == SeqSum(ColumnOfService(frame, keys[j], "TOTAL_OPERATIONS"))
                credits == SeqSum(ColumnOfService(frame, keys[j], "TOTAL_CREDITS"))
                users == ColumnOfService(frame, keys[j], "DAILY_UNIQUE_USERS")
                days_with_data == Len(ColumnOfService(frame, keys[j], "DATE"))
            IN  [SERVICE_TYPE |-> keys[j],
                 TOTAL_OPERATIONS |-> ops,
                 DAILY_UNIQUE_USERS |-> mean(users),
                 TOTAL_CREDITS |-> credits,
                 days_with_data |-> days_with_data,
                 requests_per_day |-> np_divide(RInt(ops), RInt(days_with_data)),
                 users_in_env |-> mean(users),
                 cost_per_request |-> IF ops > 0
                                      THEN np_divide(R(credits * credit_cost, 100), RInt(ops))
                                      ELSE Finite(RInt(0))]]

\* show_executive_summary, lines 741 and 765-775
\* the daily average taken without looking at the number of days
ExecutiveSummaryMetrics_unguarded(frame, credit_cost) ==
    LET total_credits == SeqSum(Column(frame, "TOTAL_CREDITS"))
        days == assess_data_maturity(frame).days
        avg_daily_credits == np_divide(RInt(total_credits), RInt(days))
        monthly_run_rate == FScale(avg_daily_credits, RInt(30))
        avg_daily_users == mean(Column(frame, "DAILY_UNIQUE_USERS"))
    IN  [total_credits |-> total_credits,
         days_of_data |-> days,
         avg_daily_credits |-> avg_daily_credits,
         monthly_run_rate |-> monthly_run_rate,
         annual_run_rate |-> FScale(monthly_run_rate, RInt(12)),
         avg_daily_users |-> avg_daily_users,
         cost_per_user_month |->
             IF Positive(avg_daily_users)
             THEN FDiv(FScale(monthly_run_rate, R(credit_cost, 100)), avg_daily_users)
             ELSE Finite(RInt(0))]

ExecutiveSummaryMetrics(frame, credit_cost) ==
    LET total_credits == SeqSum(Column(frame, "TOTAL_CREDITS"))
        days == assess_data_maturity(frame).days
        avg_daily_credits == IF days > 0 THEN np_divide(RInt(total_credits), RInt(days))
                             ELSE Finite(RInt(0))
        monthly_run_rate == FScale(avg_daily_credits, RInt(30))
        avg_daily_users == mean(Column(frame, "DAILY_UNIQUE_USERS"))
    IN  [total_credits |-> total_credits,
         days_of_data |-> days,
         avg_daily_credits |-> avg_daily_credits,
         monthly_run_rate |-> monthly_run_rate,
         annual_run_rate |-> FScale(monthly_run_rate, RInt(12)),
         avg_daily_users |-> avg_daily_users,
         cost_per_user_month |->
             IF Positive(avg_daily_users)
             THEN FDiv(FScale(monthly_run_rate, R(credit_cost, 100)), avg_daily_users)
             ELSE Finite(RInt(0))]

\* show_summary_report, lines 2751-2755
SummaryReportMetrics(frame, credit_cost) ==
    LET total_credits == SeqSum(Column(frame, "TOTAL_CREDITS"))
        total_cost == R(total_credits * credit_cost, 100)
        days == Cardinality(DateValues(frame))
    IN  [total_credits |-> total_credits,
         total_cost |-> total_cost,
         days_of_data |-> days,
         avg_daily_cost |-> IF days > 0 THEN np_divide(total_cost, RInt(days))
                            ELSE Finite(RInt(0))]

(***************************************************************************)
(* show_12_month_forecast (lines 182-206, 1391-1573)                       *)
(***************************************************************************)
QueryViews == "Query Views (Same Account)"
UploadCSV == "Upload Customer CSV"

\* the slider of the projection period
SLIDER_MIN == 3
SLIDER_MAX == 24

\* round(months * 30.5), halves to the even neighbour as Python's round does
projection_days_rounded(projection_months) ==
    LET twice == projection_months * 61
        low == twice \div 2
    IN  IF twice % 2 = 0 THEN low
        ELSE IF low % 2 = 0 THEN low ELSE low + 1

\* int(projection_months * 30.5)
projection_days(projection_months) == RTrunc(R(projection_months * 61, 2))

\* The calendar: day 1 is 1 January of EPOCH_YEAR, month 1 is that January
EPOCH_YEAR == 2025
IsLeap(y) == (y % 4 = 0 /\ y % 100 # 0) \/ y % 400 = 0
MonthLength(m) ==
    LET y == EPOCH_YEAR + ((m - 1) \div 12)
        k == ((m - 1) % 12) + 1
    IN  IF k = 2 THEN (IF IsLeap(y) THEN 29 ELSE 28)
        ELSE IF k \in {4, 6, 9, 11} THEN 30 ELSE 31
RECURSIVE MonthStart(_)
MonthStart(m) == IF m = 1 THEN 1 ELSE MonthStart(m - 1) + MonthLength(m - 1)
CalendarMonths == 1..(4 * 12)
MonthStarts == [m \in CalendarMonths |-> MonthStart(m)]
MonthOfDay ==
    [d \in 1..(MonthStart(4 * 12) - 1) |->
        CHOOSE m \in CalendarMonths : MonthStarts[m] <= d /\ d < MonthStarts[m] + MonthLength(m)]
\* DATE.dt.to_period("M")
to_period_M(d) == MonthOfDay[d]

\* sum of the fractions f[x], x in S
RECURSIVE RSumBetween(_, _, _, _)
RSumBetween(S, f, lo, hi) ==
    IF lo > hi THEN RInt(0)
    ELSE IF lo = hi THEN (IF lo \in S THEN f[lo] ELSE RInt(0))
    ELSE LET mid == (lo + hi) \div 2
         IN  RAdd(RSumBetween(S, f, lo, mid), RSumBetween(S, f, mid + 1, hi))
RSumOver(S, f) == IF S = {} THEN RInt(0) ELSE RSumBetween(S, f, SetMin(S), SetMax(S))

\* the distinct values of a set of integers, ascending
RECURSIVE Ascending(_)
Ascending(S) == IF S = {} THEN <<>> ELSE <<SetMin(S)>> \o Ascending(S \ {SetMin(S)})

ForecastRow(service, date, credits, lower, upper) ==
    [SERVICE_TYPE |-> service, FORECAST_DATE |-> date, FORECAST_CREDITS |-> credits,
     LOWER_BOUND_CREDITS |-> lower, UPPER_BOUND_CREDITS |-> upper]

\* fetch_ml_forecast_12m: the rows of the view, or none when the query fails;
\* view.status is "ok", "missing" (the view does not exist) or "error"
fetch_ml_forecast_12m(view) ==
    IF view.status = "ok"
    THEN [fdf |-> view.rows,
          ui |-> IF view.rows = <<>> THEN <<"info: ML forecast model not available">> ELSE <<>>]
    ELSE [fdf |-> <<>>,
          ui |-> IF view.status = "missing" THEN <<"info: forecast view not found">>
                 ELSE <<"warning: ML forecast unavailable">>]

\* lines 1420-1443: the rows inside the horizon and their monthly rollups
MLHorizon(fdf, days) ==
    LET start_date == SetMin({fdf[i].FORECAST_DATE : i \in 1..Len(fdf)})
        end_date == start_date + days
    IN  SelectSeq(fdf, LAMBDA r : r.FORECAST_DATE >= start_date /\ r.FORECAST_DATE < end_date)

MLMonthlyTotal(fdf, credit_cost) ==
    LET months == Ascending({to_period_M(fdf[i].FORECAST_DATE) : i \in 1..Len(fdf)})
    IN  [j \in 1..Len(months) |->
            LET rs == SelectSeq(fdf, LAMBDA r : to_period_M(r.FORECAST_DATE) = months[j])
                credits == SeqSum([i \in 1..Len(rs) |-> rs[i].FORECAST_CREDITS])
                lower == SeqSum([i \in 1..Len(rs) |-> rs[i].LOWER_BOUND_CREDITS])
                upper == SeqSum([i \in 1..Len(rs) |-> rs[i].UPPER_BOUND_CREDITS])
            IN  [MONTH |-> months[j], FORECAST_CREDITS |-> RInt(credits),
                 LOWER_BOUND_CREDITS |-> RInt(lower), UPPER_BOUND_CREDITS |-> RInt(upper),
                 FORECAST_COST_USD |-> R(credits * credit_cost, 100),
                 LOWER_COST_USD |-> R(lower * credit_cost, 100),
                 UPPER_COST_USD |-> R(upper * credit_cost, 100)]]

\* lines 1407-1521: the ML path; done says that the page returned from it
MLPath(data_source, view, days, credit_cost) ==
    IF data_source # QueryViews
    THEN [done |-> FALSE, ui |-> <<>>, monthly |-> <<>>]
    ELSE LET fetched == fetch_ml_forecast_12m(view)
             fdf == IF fetched.fdf = <<>> THEN <<>> ELSE MLHorizon(fetched.fdf, days)
         IN  IF fetched.fdf = <<>>
             THEN [done |-> FALSE, ui |-> fetched.ui \o <<"info: falling back">>,
                   monthly |-> <<>>]
             ELSE IF fdf = <<>>
             THEN [done |-> FALSE,
                   ui |-> fetched.ui \o <<"warning: no rows for the selected horizon",
                                          "info: falling back">>,
                   monthly |-> <<>>]
             ELSE [done |-> TRUE,
                   ui |-> fetched.ui \o <<"caption: ML forecast", "monthly forecast (ML)">>,
                   monthly |-> MLMonthlyTotal(fdf, credit_cost)]

\* groupby("DATE")["TOTAL_CREDITS"].sum().sort_values("DATE")
daily_total(frame) ==
    LET dates == Ascending(DateValues(frame))
    IN  [j \in 1..Len(dates) |->
            [DATE |-> dates[j],
             TOTAL_CREDITS |->
                 SeqSum([i \in 1..Len(frame.rows) |->
                            IF frame.rows[i].DATE = dates[j]
                            THEN frame.rows[i].TOTAL_CREDITS ELSE 0])]]

\* np.polyfit(x, y, deg=1) for x = 0..n-1, n >= 2: the least-squares line
polyfit(y) ==
    LET n == Len(y)
        Sx == SeqSum([i \in 1..n |-> i - 1])
        Sxx == SeqSum([i \in 1..n |-> (i - 1) * (i - 1)])
        Sy == SeqSum(y)
        Sxy == SeqSum([i \in 1..n |-> (i - 1) * y[i]])
        den == n * Sxx - Sx * Sx
    IN  [slope |-> R(n * Sxy - Sx * Sy, den), intercept |-> R(Sy * Sxx - Sx * Sxy, den)]

NoFit == [slope |-> RInt(0), intercept |-> RInt(0)]

\* the extrapolation without its floor
y_future_unfloored(fit, x) == RAdd(fit.intercept, RMul(fit.slope, RInt(x)))
\* np.maximum(0, intercept + slope * x_future)
y_future(fit, x) == RMax(RInt(0), RAdd(fit.intercept, RMul(fit.slope, RInt(x))))

\* the refusal threshold of the fallback
MIN_POINTS == 7

\* the test of line 1539 on the rows instead of the daily points
TooFewPoints_rows(frame) == Len(frame.rows) < MIN_POINTS
\* len(daily_total) < 7
TooFewPoints(frame) == Len(daily_total(frame)) < MIN_POINTS

\* lines 1526-1573: the fallback path
FallbackPath(frame, days, credit_cost) ==
    IF frame.none \/ frame.rows = <<>>
    THEN [ui |-> <<"warning: no historical data">>, fit |-> NoFit, fitted |-> FALSE,
          proj |-> <<>>, monthly |-> <<>>]
    ELSE IF TooFewPoints(frame)
    THEN [ui |-> <<"warning: not enough historical data points">>, fit |-> NoFit,
          fitted |-> FALSE, proj |-> <<>>, monthly |-> <<>>]
    ELSE LET daily == daily_total(frame)
             n == Len(daily)
             fit == polyfit([i \in 1..n |-> daily[i].TOTAL_CREDITS])
             last_date == daily[n].DATE
             proj == [k \in 1..days |->
                        [DATE |-> last_date + k,
                         FORECAST_CREDITS |-> y_future(fit, n + k - 1)]]
             months == Ascending({to_period_M(last_date + k) : k \in 1..days})
             credits == [k \in 1..days |-> proj[k].FORECAST_CREDITS]
         IN  [ui |-> <<"caption: fallback forecast", "monthly forecast (fallback)">>,
              fit |-> fit, fitted |-> TRUE, proj |-> proj,
              monthly |->
                 [j \in 1..Len(months) |->
                    LET total == RSumOver({k \in 1..days : to_period_M(last_date + k) = months[j]},
                                          credits)
                    IN  [MONTH |-> months[j], FORECAST_CREDITS |-> total,
                         FORECAST_COST_USD |-> RMul(total, R(credit_cost, 100))]]]

ForecastPage(days, ml, fallback) ==
    [projection_days |-> days, ui |-> ml.ui \o fallback.ui, ml_monthly |-> ml.monthly,
     fit |-> fallback.fit, fitted |-> fallback.fitted, proj |-> fallback.proj,
     monthly |-> fallback.monthly]

NoFallback == [ui |-> <<>>, fit |-> NoFit, fitted |-> FALSE, proj |-> <<>>, monthly |-> <<>>]

\* the page without the return that ends the ML path
show_12_month_forecast_no_return(data_source, credit_cost, frame, projection_months, view) ==
    LET days == projection_days(projection_months)
    IN  ForecastPage(days, MLPath(data_source, view, days, credit_cost),
                     FallbackPath(frame, days, credit_cost))

\* projection_months is the slider's value, view the state of the ML forecast view
show_12_month_forecast(data_source, credit_cost, frame, projection_months, view) ==
    LET days == projection_days(projection_months)
        ml == MLPath(data_source, view, days, credit_cost)
    IN  ForecastPage(days, ml,
                     IF ml.done THEN NoFallback ELSE FallbackPath(frame, days, credit_cost))

(***************************************************************************)
(* State machine: the maturity assessor applied to a sample                *)
(***************************************************************************)
NoAssessment == Assessment("unset", 0, 0, "", "", FALSE)
NoInterval == [lower |-> RInt(0), upper |-> RInt(0), variance_pct |-> RInt(0)]
NoIntervalArgs == [base_value |-> 0, confidence_score |-> 0, custom_variance |-> NoneArg]
NoGrowthArgs == [growth_rate |-> 0, projection_months |-> 0, credit_cost |-> 0]

\* nothing else has been called
NoPocArgs ==
    [current_monthly_cost |-> RInt(0), current_users |-> RInt(0), multiplier_key |-> "",
     custom_user_mult |-> NoneArg, custom_usage_mult |-> NoneArg]
NoPocProjection ==
    PocProjection(RInt(0), RInt(0), RInt(0), RInt(0), Finite(RInt(0)))

NoView == [status |-> "ok", rows |-> <<>>]
NoForecastArgs ==
    [data_source |-> "", credit_cost |-> 0, projection_months |-> 0, view |-> NoView]
NoForecast ==
    [projection_days |-> 0, ui |-> <<>>, ml_monthly |-> <<>>, fit |-> NoFit,
     fitted |-> FALSE, proj |-> <<>>, monthly |-> <<>>]

NoPage == [name |-> "", declined |-> FALSE, figures |-> <<>>]

\* a CSV file: how read_csv ends, its header, its rows (TOTAL_CREDITS is <<>>
\* where the cell is empty, <<c>> where it holds c), whether a DATE cell
\* is no date and whether a TOTAL_CREDITS cell is no number
CsvFile(read, columns, rows, bad_date, text_credits) ==
    [read |-> read, columns |-> columns, rows |-> rows, bad_date |-> bad_date,
     text_credits |-> text_credits]
NoFile == CsvFile("none", {}, <<>>, FALSE, FALSE)

\* how a query ends: with rows, without rows, or with an exception whose
\* message holds some of the phrases the function looks for
QueryResult(status, rows, error_msg) == [status |-> status, rows |-> rows, error_msg |-> error_msg]
NoViews == [snapshot |-> QueryResult("none", <<>>, {}), live |-> QueryResult("none", <<>>, {})]

NoProposalArgs == [maturity |-> NoAssessment, projections |-> <<>>, assumptions |-> <<>>]

AppAtStart ==
    /\ page = NoPage
    /\ uploaded_file = NoFile
    /\ now = 0
    /\ proposal_in = NoProposalArgs
    /\ proposal_text = <<>>
    /\ latest_30d = <<>>
    /\ views = NoViews
    /\ queried = <<>>
    /\ user_personas_simple = <<>>

RestAtStart ==
    /\ AppAtStart
    /\ totals_df = <<>>
    /\ poc_in = NoPocArgs
    /\ poc_out = NoPocProjection
    /\ requests_df = <<>>
    /\ metrics = <<>>
    /\ forecast_in = NoForecastArgs
    /\ forecast = NoForecast

InitMaturity ==
    /\ df \in MaturitySamples
    /\ last = "start"
    /\ maturity = NoAssessment
    /\ ci_in = NoIntervalArgs
    /\ ci_out = NoInterval
    /\ gp_in = NoGrowthArgs
    /\ projection_df = <<>>
    /\ raised = ""
    /\ RestAtStart

AssessDataMaturity ==
    /\ maturity' = assess_data_maturity(df)
    /\ last' = "assess_data_maturity"
    /\ UNCHANGED <<appVars, df, ci_in, ci_out, gp_in, projection_df, raised, restVars>>

NextMaturity == AssessDataMaturity

SpecMaturity == InitMaturity /\ [][NextMaturity]_vars

(***************************************************************************)
(* Claims about the maturity assessor (checked under SpecMaturity)         *)
(***************************************************************************)
Assessed == last = "assess_data_maturity"
NonEmpty(frame) == ~frame.none /\ frame.rows # <<>>

\* the sample's figures, restated from the sample itself
DistinctDays(frame) == Cardinality({frame.rows[i].DATE : i \in 1..Len(frame.rows)})
SpanDays(frame) ==
    LET D == {frame.rows[i].DATE : i \in 1..Len(frame.rows)}
    IN  IF D = {} THEN 0 ELSE SetMax(D) - SetMin(D) + 1
\* completeness as numerator and denominator: 1 for at most one day, else days / span
ComplNum(frame) == IF DistinctDays(frame) <= 1 THEN 1 ELSE DistinctDays(frame)
ComplDen(frame) == IF DistinctDays(frame) <= 1 THEN 1 ELSE SpanDays(frame)
CappedDays(frame) == IF DistinctDays(frame) > 30 THEN 30 ELSE DistinctDays(frame)
\* (min(d/30, 1) * 60 + c * 40) * ComplDen, an integer
ScoreTimesDen(frame) == 2 * CappedDays(frame) * ComplDen(frame) + 40 * ComplNum(frame)

\* the figures and the assessment of every bounded sample, for comparing the
\* sample at hand with any other one
Assessments ==
    {[d |-> DistinctDays(s), cn |-> ComplNum(s), cd |-> ComplDen(s),
      empty |-> ~NonEmpty(s), m |-> assess_data_maturity(s)] : s \in MaturitySamples}

LevelRank(level) ==
    CASE level = "none" -> 0
      [] level = "insufficient" -> 1
      [] level = "developing" -> 2
      [] level = "reliable" -> 3
      [] level = "confident" -> 4

\* C1: the assessment is decided by d, the number of distinct dates, alone:
\* d = 0 -> none, not ready; 1..2 -> insufficient, not ready; 3..6 -> developing
\* "Developing", ready; 7..13 -> developing "Improving", ready; 14..29 ->
\* reliable, ready; >= 30 -> confident, ready.  Ready exactly when d >= 3, and
\* a sample with at least as many days never has a lower level.
C1_DecisionTable ==
    Assessed =>
        LET d == DistinctDays(df)
            m == maturity
        IN  /\ d = 0 => m.level = "none" /\ ~m.ready_for_projection
            /\ d \in 1..2 => m.level = "insufficient" /\ ~m.ready_for_projection
            /\ d \in 3..6 => /\ m.level = "developing" /\ m.confidence_label = "Developing"
                             /\ m.ready_for_projection
            /\ d \in 7..13 => /\ m.level = "developing" /\ m.confidence_label = "Improving"
                              /\ m.ready_for_projection
            /\ d \in 14..29 => m.level = "reliable" /\ m.ready_for_projection
            /\ d >= 30 => m.level = "confident" /\ m.ready_for_projection
            /\ m.ready_for_projection <=> d >= 3
            /\ \A a \in Assessments :
                 /\ a.d >= d => LevelRank(a.m.level) >= LevelRank(m.level)
                 /\ a.d = d =>
                      /\ a.m.level = m.level
                      /\ a.m.confidence_label = m.confidence_label
                      /\ a.m.ready_for_projection = m.ready_for_projection

C1_Witness ==
    /\ Assessed
    /\ DistinctDays(df) = 2
    /\ Len(df.rows) = 3
    /\ maturity.level = "insufficient"
    /\ ~maturity.ready_for_projection

\* C2 as stated: the score of a non-empty sample is the real value
\* min(d/30, 1) * 60 + c * 40 rounded to the nearest integer, within 0..100.
C2_ScoreRoundedToNearest ==
    (Assessed /\ NonEmpty(df)) =>
        /\ 2 * Abs(maturity.confidence_score * ComplDen(df) - ScoreTimesDen(df)) <= ComplDen(df)
        /\ maturity.confidence_score \in 0..100

\* C2 amended: the score of a non-empty sample is the real value
\* min(d/30, 1) * 60 + c * 40 truncated to an integer (rounded down), within 0..100.
C2_ScoreTruncated ==
    (Assessed /\ NonEmpty(df)) =>
        /\ maturity.confidence_score * ComplDen(df) <= ScoreTimesDen(df)
        /\ ScoreTimesDen(df) < (maturity.confidence_score + 1) * ComplDen(df)
        /\ maturity.confidence_score \in 0..100

\* 2 days over a span of 3: the real value is 30.67, the score 30
C2_Witness ==
    /\ Assessed
    /\ DistinctDays(df) = 2
    /\ SpanDays(df) = 3
    /\ maturity.confidence_score = 30

\* C3 as stated: in every branch, the empty one included, the score returned is
\* the score formula applied to the sample's days and completeness.
C3_FormulaInEveryBranch ==
    Assessed =>
        maturity.confidence_score = confidence_score(days_of_data(df), data_completeness(df))

\* C3 amended: in every branch of a non-empty sample the score returned is the
\* score formula applied to the sample's days and completeness, unclipped; the
\* empty branch returns the fixed score 0.
C3_FormulaInNonEmptyBranches ==
    Assessed =>
        /\ NonEmpty(df) =>
             maturity.confidence_score = confidence_score(days_of_data(df), data_completeness(df))
        /\ ~NonEmpty(df) => maturity.confidence_score = 0

\* an insufficient sample (2 full days) scoring above a developing one
C3_Witness ==
    /\ Assessed
    /\ maturity.level = "insufficient"
    /\ maturity.confidence_score = 44
    /\ \E a \in Assessments :
         /\ a.m.level = "developing"
         /\ a.m.confidence_score < 44

\* C4: among non-empty samples, at equal completeness more distinct days never
\* give a lower score, from 30 days on the day part is 60, and at equal days a
\* higher completeness never gives a lower score.
C4_ScoreMonotone ==
    (Assessed /\ NonEmpty(df)) =>
        LET d == DistinctDays(df)
            cn == ComplNum(df)
            cd == ComplDen(df)
        IN  /\ d >= 30 => maturity.confidence_score = 60 + ((40 * cn) \div cd)
            /\ \A a \in Assessments :
                 ~a.empty =>
                   /\ (a.cn * cd = cn * a.cd /\ a.d >= d) =>
                        a.m.confidence_score >= maturity.confidence_score
                   /\ (a.d = d /\ a.cn * cd >= cn * a.cd) =>
                        a.m.confidence_score >= maturity.confidence_score

\* a 30-day sample with a gap, next to a longer one of the same completeness
C4_Witness ==
    /\ Assessed
    /\ DistinctDays(df) = 30
    /\ \E a \in Assessments :
         /\ a.d > 30
         /\ a.cn * ComplDen(df) = ComplNum(df) * a.cd
         /\ a.m.confidence_score = maturity.confidence_score

\* C5: the completeness the assessor uses is 1 for at most one distinct date,
\* else (distinct dates) / (days from the earliest to the latest date, both
\* counted); it lies in (0, 1] and is 1 exactly when no day of the span is missing.
C5_Completeness ==
    Assessed =>
        LET c == data_completeness(df)
            D == {df.rows[i].DATE : i \in 1..Len(df.rows)}
        IN  /\ Cardinality(D) <= 1 => c = RInt(1)
            /\ Cardinality(D) > 1 =>
                 c.num * (SetMax(D) - SetMin(D) + 1) = Cardinality(D) * c.den
            /\ c.num > 0 /\ c.den > 0 /\ c.num <= c.den
            /\ D # {} => (c = RInt(1) <=> \A t \in SetMin(D)..SetMax(D) : t \in D)

\* a sample with a missing day in its span
C5_Witness ==
    /\ Assessed
    /\ DistinctDays(df) = 4
    /\ SpanDays(df) = 6
    /\ data_completeness(df) = [num |-> 2, den |-> 3]

(***************************************************************************)
(* State machine: the interval calculator applied to its arguments         *)
(***************************************************************************)
BaseValues == {100 * k : k \in -1..MaxBase}
ScoreArgs == 0..MaxScoreArg
CustomVariances == {NoneArg, Some(RInt(0)), Some(R(1, 10)), Some(R(1, 4)), Some(R(3, 2))}

InitInterval ==
    /\ df = None
    /\ last = "start"
    /\ maturity = NoAssessment
    /\ ci_in \in [base_value : BaseValues, confidence_score : ScoreArgs,
                  custom_variance : CustomVariances]
    /\ ci_out = NoInterval
    /\ gp_in = NoGrowthArgs
    /\ projection_df = <<>>
    /\ raised = ""
    /\ RestAtStart

CalculateConfidenceInterval ==
    /\ last = "start"
    /\ ci_out' = calculate_confidence_interval(ci_in.base_value, ci_in.confidence_score,
                                               ci_in.custom_variance)
    /\ last' = "calculate_confidence_interval"
    /\ UNCHANGED <<appVars, df, maturity, ci_in, gp_in, projection_df, raised, restVars>>

NextInterval == CalculateConfidenceInterval

SpecInterval == InitInterval /\ [][NextInterval]_vars

(***************************************************************************)
(* Claims about the interval calculator (checked under SpecInterval)       *)
(***************************************************************************)
IntervalDone == last = "calculate_confidence_interval"
Max2(a, b) == IF a >= b THEN a ELSE b

\* C6: the result is (base*(1-v), base*(1+v), v) with v the custom variance
\* whenever one is given (0 included, whatever the score) and otherwise
\* v = max(0.05, 0.30 - (score/100)*0.25), in ten-thousandths
\* max(500, 3000 - 25*score); the lower bound is not clamped at zero.
C6_IntervalFormula ==
    IntervalDone =>
        LET v == ci_out.variance_pct
            b == ci_in.base_value
        IN  /\ ci_in.custom_variance # NoneArg => v = ci_in.custom_variance[1]
            /\ ci_in.custom_variance = NoneArg =>
                 v.num * 10000 = v.den * Max2(500, 3000 - 25 * ci_in.confidence_score)
            /\ (ci_in.custom_variance = NoneArg /\ ci_in.confidence_score = 0) => v = R(3, 10)
            /\ (ci_in.custom_variance = NoneArg /\ ci_in.confidence_score = 100) => v = R(1, 20)
            /\ ci_out.lower.num * v.den = ci_out.lower.den * b * (v.den - v.num)
            /\ ci_out.upper.num * v.den = ci_out.upper.den * b * (v.den + v.num)

\* a custom variance of 0 at a low score: the band collapses onto the base
C6_Witness ==
    /\ IntervalDone
    /\ ci_in.custom_variance = Some(RInt(0))
    /\ ci_in.confidence_score = 0
    /\ ci_in.base_value = 100
    /\ ci_out.lower = RInt(100)
    /\ ci_out.upper = RInt(100)

\* C7: for base >= 0, a score in 0..100 and no custom variance:
\* lower <= base <= upper, upper - lower = 2 * base * variancePct, and
\* variancePct is in [0.05, 0.30].
C7_BandAroundBase ==
    (/\ IntervalDone
     /\ ci_in.base_value >= 0
     /\ ci_in.confidence_score \in 0..100
     /\ ci_in.custom_variance = NoneArg) =>
        LET v == ci_out.variance_pct
            b == RInt(ci_in.base_value)
        IN  /\ RLe(ci_out.lower, b)
            /\ RLe(b, ci_out.upper)
            /\ RSub(ci_out.upper, ci_out.lower) = RMul(RInt(2), RMul(b, v))
            /\ RLe(R(5, 100), v)
            /\ RLe(v, R(30, 100))

C7_Witness ==
    /\ IntervalDone
    /\ ci_in.base_value = 200
    /\ ci_in.confidence_score = 60
    /\ ci_in.custom_variance = NoneArg
    /\ ci_out.variance_pct = R(15, 100)
    /\ ci_out.lower = RInt(170)
    /\ ci_out.upper = RInt(230)

\* pairs <<score of a sample, score of a sample with the same completeness and
\* at least as many distinct days>>
MoreDaysScores ==
    UNION {{<<a.m.confidence_score, b.m.confidence_score>> :
              b \in {x \in Assessments :
                        ~x.empty /\ x.d >= a.d /\ x.cn * a.cd = a.cn * x.cd}} :
           a \in {x \in Assessments : ~x.empty}}

\* C8: with no custom variance a higher score never gets a larger variancePct
\* (nor a lower score a smaller one), and the score of a sample with more
\* distinct days at equal completeness never gets a wider band.
C8_BandNarrowsWithScore ==
    (IntervalDone /\ ci_in.custom_variance = NoneArg) =>
        LET v == ci_out.variance_pct
            w(score) == calculate_confidence_interval(ci_in.base_value, score, NoneArg)
        IN  /\ \A s2 \in ScoreArgs :
                 /\ s2 >= ci_in.confidence_score => RLe(w(s2).variance_pct, v)
                 /\ s2 <= ci_in.confidence_score => RLe(v, w(s2).variance_pct)
            /\ \A p \in MoreDaysScores :
                 p[1] = ci_in.confidence_score =>
                   /\ RLe(w(p[2]).variance_pct, v)
                   /\ ci_in.base_value >= 0 =>
                        RLe(RSub(w(p[2]).upper, w(p[2]).lower), RSub(ci_out.upper, ci_out.lower))

\* the score of 2 full days (44), which a longer full sample exceeds
C8_Witness ==
    /\ IntervalDone
    /\ ci_in.custom_variance = NoneArg
    /\ ci_in.confidence_score = 44
    /\ ci_in.base_value = 100
    /\ ci_out.variance_pct = R(19, 100)
    /\ \E p \in MoreDaysScores : p[1] = 44 /\ p[2] = 100

(***************************************************************************)
(* State machine: the growth projection applied to a sample                *)
(***************************************************************************)
KeyRank(row) ==
    (MaxGrowthDate - row.DATE) * 2 + (IF row.SERVICE_TYPE = "Cortex Analyst" THEN 0 ELSE 1)

\* up to MaxGrowthRows rows, one per (date, service), latest day first
GrowthSamples ==
    LET rowSet == {UsageRow(d, sv, u, 1, c) :
                     d \in 1..MaxGrowthDate, sv \in Services, u \in 0..MaxUsers, c \in 0..MaxCredits}
    IN  {rows \in UNION {[1..k -> rowSet] : k \in 0..MaxGrowthRows} :
            \A i \in 1..(Len(rows) - 1) : KeyRank(rows[i]) < KeyRank(rows[i + 1])}

GrowthRates == {-200, -100, -50, 0, 10, 25}
CreditCosts == {250, 300}

\* the case of test_projection_formula: 1000 credits, 10% a month, 12 months, $3.00
TestSample == Frame(<<UsageRow(1, "Cortex Functions", 10, 100, 1000)>>)
TestArgs == [growth_rate |-> 10, projection_months |-> 12, credit_cost |-> 300]

InitGrowth ==
    /\ \/ /\ df \in {Frame(rows) : rows \in GrowthSamples}
          /\ gp_in \in [growth_rate : GrowthRates, projection_months : 0..MaxMonths,
                        credit_cost : CreditCosts]
       \/ /\ df = TestSample
          /\ gp_in = TestArgs
    /\ last = "start"
    /\ maturity = NoAssessment
    /\ ci_in = NoIntervalArgs
    /\ ci_out = NoInterval
    /\ projection_df = <<>>
    /\ raised = ""
    /\ RestAtStart

CalculateGrowthProjection ==
    /\ last = "start"
    /\ projection_df' = calculate_growth_projection(df, gp_in.growth_rate,
                                                    gp_in.projection_months, gp_in.credit_cost)
    /\ last' = "calculate_growth_projection"
    /\ raised' = ""      \* the function has no raise statement and validates nothing
    /\ UNCHANGED <<appVars, df, maturity, ci_in, ci_out, gp_in, restVars>>

NextGrowth == CalculateGrowthProjection

SpecGrowth == InitGrowth /\ [][NextGrowth]_vars

(***************************************************************************)
(* Claims about the growth projection (checked under SpecGrowth)           *)
(***************************************************************************)
GrowthDone == last = "calculate_growth_projection"

\* the sample's figures per service, restated from the sample itself
ServicesIn(frame) == {frame.rows[i].SERVICE_TYPE : i \in 1..Len(frame.rows)}
RowsOfService(frame, sv) == {i \in 1..Len(frame.rows) : frame.rows[i].SERVICE_TYPE = sv}
TotalCredits(frame, sv) ==
    SumOver(RowsOfService(frame, sv), [i \in 1..Len(frame.rows) |-> frame.rows[i].TOTAL_CREDITS])
TotalUsers(frame, sv) ==
    SumOver(RowsOfService(frame, sv), [i \in 1..Len(frame.rows) |-> frame.rows[i].DAILY_UNIQUE_USERS])

ProjectedRows(m, sv) ==
    {i \in 1..Len(projection_df) :
        projection_df[i].month = m /\ projection_df[i].service_type = sv}

RECURSIVE DigitsValue(_)
DigitsValue(mag) == IF mag = <<>> THEN 0 ELSE Head(mag) + 10 * DigitsValue(Tail(mag))
\* a non-negative decimal value (k = 1, e >= 1) in whole hundredths, rounded down
WholeHundredths(x) == DigitsValue(SubSeq(x.n.mag, 2 * (x.e - 1) + 1, Len(x.n.mag)))

\* C9: one static baseline per service (sum of TOTAL_CREDITS, mean of
\* DAILY_UNIQUE_USERS over the whole sample); every month m in 1..numMonths and
\* every service has projected_credits = baseline * (1+rate)^m (month 1 is the
\* baseline times 1+rate, each later month the month before times 1+rate),
\* projected_users likewise at the same rate, and projected_cost_usd =
\* projected_credits * creditCost; baseline 1000 at 10% and $3.00 gives 3300.0
\* at month 1 and about 9415.3 at month 12.
C9_CompoundGrowth ==
    GrowthDone =>
        LET p == gp_in.growth_rate
        IN  /\ \A m \in 1..gp_in.projection_months : \A sv \in ServicesIn(df) :
                 /\ ProjectedRows(m, sv) # {}
                 /\ \A i \in ProjectedRows(m, sv) :
                      LET r == projection_df[i]
                      IN  /\ NumEq(NumMulInt(r.projected_cost_usd, 100),
                                   NumMulInt(r.projected_credits, gp_in.credit_cost))
                          /\ m = 1 =>
                               /\ NumEq(NumMulInt(r.projected_credits, 100),
                                        NumOfInt(TotalCredits(df, sv) * (100 + p)))
                               /\ NumEq(NumMulInt(r.projected_users,
                                                  100 * Cardinality(RowsOfService(df, sv))),
                                        NumOfInt(TotalUsers(df, sv) * (100 + p)))
                          /\ m > 1 =>
                               \A j \in ProjectedRows(m - 1, sv) :
                                  /\ NumEq(NumMulInt(r.projected_credits, 100),
                                           NumMulInt(projection_df[j].projected_credits, 100 + p))
                                  /\ NumEq(NumMulInt(r.projected_users, 100),
                                           NumMulInt(projection_df[j].projected_users, 100 + p))
            /\ (df = TestSample /\ gp_in = TestArgs) =>
                 /\ \A i \in ProjectedRows(1, "Cortex Functions") :
                      NumEq(projection_df[i].projected_cost_usd, NumOfInt(3300))
                 /\ \A i \in ProjectedRows(12, "Cortex Functions") :
                      WholeHundredths(projection_df[i].projected_cost_usd) \in 941525..941534

\* the tested case, projected to month 12: 9415.28...
C9_Witness ==
    /\ GrowthDone
    /\ df = TestSample
    /\ gp_in = TestArgs
    /\ Len(projection_df) = 12
    /\ projection_df[12].month = 12
    /\ WholeHundredths(projection_df[12].projected_cost_usd) = 941528

\* C10: with growth rate 0 every month of every service shows the service's
\* baseline credits and baseline users, so all months are identical.
C10_ZeroGrowthKeepsBaseline ==
    (GrowthDone /\ gp_in.growth_rate = 0) =>
        /\ \A m \in 1..gp_in.projection_months : \A sv \in ServicesIn(df) :
             /\ ProjectedRows(m, sv) # {}
             /\ \A i \in ProjectedRows(m, sv) :
                  /\ NumEq(projection_df[i].projected_credits, NumOfInt(TotalCredits(df, sv)))
                  /\ NumEq(NumMulInt(projection_df[i].projected_users,
                                     Cardinality(RowsOfService(df, sv))),
                           NumOfInt(TotalUsers(df, sv)))
        /\ \A i, j \in 1..Len(projection_df) :
             projection_df[i].service_type = projection_df[j].service_type =>
               /\ NumEq(projection_df[i].projected_credits, projection_df[j].projected_credits)
               /\ NumEq(projection_df[i].projected_users, projection_df[j].projected_users)
               /\ NumEq(projection_df[i].projected_cost_usd, projection_df[j].projected_cost_usd)

\* two services, one of them with two days of data, projected two months ahead
C10_Witness ==
    /\ GrowthDone
    /\ gp_in.growth_rate = 0
    /\ gp_in.projection_months = 2
    /\ Len(df.rows) = 3
    /\ Cardinality(ServicesIn(df)) = 2
    /\ Len(projection_df) = 4
    /\ \E sv \in ServicesIn(df) : TotalCredits(df, sv) = 3 /\ TotalUsers(df, sv) = 3


\* C11: a growth rate <= -1 is rejected with a distinguishable error and no
\* numeric projection is returned; for every rate > -1 (negative ones
\* included) no projected_credits and no projected_cost_usd is negative when
\* the baseline is non-negative.
C11_RejectsInvalidRate ==
    GrowthDone =>
        /\ gp_in.growth_rate <= -100 => (raised # "" /\ projection_df = <<>>)
        /\ gp_in.growth_rate > -100 =>
              \A i \in 1..Len(projection_df) :
                 /\ ~NumNegative(projection_df[i].projected_credits)
                 /\ ~NumNegative(projection_df[i].projected_cost_usd)

\* C12: numMonths = 0 gives an empty result; numMonths = N >= 1 over S distinct
\* services gives exactly N*S rows, one per (month, service) with month in
\* 1..N, all rows of a month before any row of the next month.
C12_RowsPerMonthAndService ==
    GrowthDone =>
        LET N == gp_in.projection_months
            S == Cardinality(ServicesIn(df))
        IN  /\ N = 0 => projection_df = <<>>
            /\ N >= 1 =>
                  /\ Len(projection_df) = N * S
                  /\ \A i \in 1..Len(projection_df) :
                        /\ projection_df[i].month \in 1..N
                        /\ projection_df[i].service_type \in ServicesIn(df)
                  /\ \A m \in 1..N : \A sv \in ServicesIn(df) :
                        Cardinality(ProjectedRows(m, sv)) = 1
                  /\ \A i, j \in 1..Len(projection_df) :
                        i < j => projection_df[i].month <= projection_df[j].month

\* two services projected two months ahead: four rows, months 1, 1, 2, 2
C12_Witness ==
    /\ GrowthDone
    /\ gp_in.projection_months = 2
    /\ Cardinality(ServicesIn(df)) = 2
    /\ Len(projection_df) = 4
    /\ projection_df[2].month = 1
    /\ projection_df[3].month = 2
    /\ projection_df[1].service_type # projection_df[2].service_type

(***************************************************************************)
(* State machine: the rolling totals and the growth projection applied to  *)
(* a sample                                                                *)
(***************************************************************************)
\* an upload: up to MaxRollRows rows in any order, (date, service) pairs may repeat
UploadSamples ==
    LET rowSet == {UsageRow(d, sv, u, 1, c) :
                     d \in 1..MaxRollDate, sv \in Services, u \in 0..1, c \in 0..1}
    IN  UNION {[1..k -> rowSet] : k \in 0..MaxRollRows}

\* n consecutive days of one service, latest day first as the views deliver
\* them, with or without one row of a second service among them
LongRows(n, a, b, second) ==
    LET own == [i \in 1..n |->
                  LET d == n - i + 1
                  IN  UsageRow(d, "Cortex Analyst", b * (d % 2), d % 3, 1 + ((a * d) % 3))]
    IN  IF second /\ n >= 2
        THEN SubSeq(own, 1, n - 2) \o <<UsageRow(2, "Cortex Search", 1, 1, 5)>>
                                   \o SubSeq(own, n - 1, n)
        ELSE own

LongSamples ==
    {LongRows(n, a, b, second) :
        n \in 1..MaxRollDays, a \in 1..2, b \in 0..1, second \in BOOLEAN}

RollingArgs == [growth_rate |-> 25, projection_months |-> 1, credit_cost |-> 300]

InitRolling ==
    /\ df \in {Frame(rows) : rows \in UploadSamples \cup LongSamples}
    /\ last = "start"
    /\ maturity = NoAssessment
    /\ ci_in = NoIntervalArgs
    /\ ci_out = NoInterval
    /\ gp_in = RollingArgs
    /\ projection_df = <<>>
    /\ raised = ""
    /\ RestAtStart

\* the caller's sample after the call, had the function sorted it in place
\* (df.sort_values('DATE', inplace=True)) before adding its columns
caller_df_sorted_in_place(frame, asc) ==
    Frame([p \in 1..Len(asc) |-> frame.rows[asc[p]]])

\* the caller's sample after calculate_30day_totals: df.sort_values('DATE')
\* returns a new frame, and the rolling columns are assigned to that frame
caller_df(frame, asc) == frame

Calculate30DayTotals ==
    /\ last = "start"
    /\ \E asc \in sort_values(df.rows, TRUE) :
         \E desc \in sort_values([p \in 1..Len(asc) |-> df.rows[asc[p]]], FALSE) :
            /\ totals_df' = calculate_30day_totals(df, asc, desc)
            /\ df' = caller_df(df, asc)
    /\ last' = "calculate_30day_totals"
    /\ raised' = ""
    /\ UNCHANGED <<appVars, maturity, ci_in, ci_out, gp_in, projection_df,
                   poc_in, poc_out, requests_df, metrics, forecast_in, forecast>>

NextRolling == Calculate30DayTotals \/ CalculateGrowthProjection

SpecRolling == InitRolling /\ [][NextRolling]_vars

(***************************************************************************)
(* Claims about the rolling totals (checked under SpecRolling)             *)
(***************************************************************************)
RollingDone == last = "calculate_30day_totals"

\* the rows of one service in the result, in the order of the result
TotalsOfService(sv) == SelectSeq(totals_df, LAMBDA r : r.SERVICE_TYPE = sv)

\* the same rows arranged by date ascending, in every way ties allow
AscendingArrangements(sv) ==
    LET rs == TotalsOfService(sv)
    IN  {[p \in 1..Len(rs) |-> rs[o[p]]] : o \in sort_values(rs, TRUE)}

Max0(a) == IF a < 0 THEN 0 ELSE a

\* the sum of column col over the 0-based positions max(0, i-w+1)..i of g
WindowSum(g, col, w, i) ==
    SeqSum([k \in 1..(i - Max0(i - w + 1) + 1) |-> g[Max0(i - w + 1) + k][col]])
WindowLen(w, i) == i - Max0(i - w + 1) + 1

\* the credits of TestDataTransformations.setUp
TestCredits == <<10, 12, 15, 18, 20, 22, 25, 28, 30, 32>>

\* C14: within one service's records by date ascending, the rolling sum and
\* the rolling mean at position i cover the positions max(0, i-w+1)..i:
\* position 0 holds the first value itself and position w-1 the sum (mean) of
\* the first w values; window 5 over 10,12,15,18,20,... gives 10 at index 0
\* and 75 at index 4.
C14_TrailingTruncatedWindow ==
    /\ RollingDone =>
         \A sv \in ServicesIn(df) :
            \E g \in AscendingArrangements(sv) :
               LET w == ROLLING_WINDOW
               IN  /\ Len(g) = Cardinality(RowsOfService(df, sv))
                   /\ \A i \in 0..(Len(g) - 1) :
                        /\ g[i + 1].credits_30d_total = WindowSum(g, "TOTAL_CREDITS", w, i)
                        /\ g[i + 1].operations_30d_total = WindowSum(g, "TOTAL_OPERATIONS", w, i)
                        /\ g[i + 1].users_30d_avg =
                             R(WindowSum(g, "DAILY_UNIQUE_USERS", w, i), WindowLen(w, i))
                   /\ g[1].credits_30d_total = g[1].TOTAL_CREDITS
                   /\ g[1].users_30d_avg = RInt(g[1].DAILY_UNIQUE_USERS)
                   /\ Len(g) >= w =>
                        /\ g[w].credits_30d_total =
                             SeqSum([k \in 1..w |-> g[k].TOTAL_CREDITS])
                        /\ g[w].users_30d_avg =
                             R(SeqSum([k \in 1..w |-> g[k].DAILY_UNIQUE_USERS]), w)
    /\ rolling_sum(TestCredits, 5)[1] = 10
    /\ rolling_sum(TestCredits, 5)[5] = 75

\* 32 days of one service: day 31 sums days 2..31 and day 32 sums days 3..32
C14_Witness ==
    /\ RollingDone
    /\ Len(totals_df) = 32
    /\ totals_df[1].DATE = 32
    /\ totals_df[2].DATE = 31
    /\ totals_df[32].DATE = 1
    /\ totals_df[32].TOTAL_CREDITS > 0
    /\ totals_df[2].credits_30d_total = totals_df[3].credits_30d_total
                                          + totals_df[2].TOTAL_CREDITS - totals_df[32].TOTAL_CREDITS
    /\ totals_df[1].credits_30d_total = totals_df[2].credits_30d_total
                                          + totals_df[1].TOTAL_CREDITS - totals_df[31].TOTAL_CREDITS

\* C15: every row's rolling cost-per-user is rollingCreditsSum /
\* rollingUsersMean when the rolling users mean is non-zero and exactly 0 when
\* it is zero, whatever the rolling credits sum; no row holds NaN or an
\* infinite value.
C15_CostPerUserZeroWhenNoUsers ==
    RollingDone =>
        \A p \in 1..Len(totals_df) :
           LET r == totals_df[p]
           IN  /\ r.cost_per_user_30d.kind = "finite"
               /\ r.users_30d_avg.num # 0 =>
                    r.cost_per_user_30d.val = RDiv(RInt(r.credits_30d_total), r.users_30d_avg)
               /\ r.users_30d_avg.num = 0 => r.cost_per_user_30d.val = RInt(0)

\* the sample restricted to the records of one service
OnlyService(frame, sv) == Frame(SelectSeq(frame.rows, LAMBDA r : r.SERVICE_TYPE = sv))

\* everything calculate_30day_totals can return for a sample
TotalsOutcomes(frame) ==
    UNION {{calculate_30day_totals(frame, asc, desc) :
              desc \in sort_values([p \in 1..Len(asc) |-> frame.rows[asc[p]]], FALSE)} :
           asc \in sort_values(frame.rows, TRUE)}

MonthOneRows(sv) ==
    SelectSeq(projection_df, LAMBDA r : r.service_type = sv /\ r.month = 1)

\* C16: per-service aggregation never mixes services: the rolling values and
\* the growth baseline of a service are those of the sample reduced to that
\* service's records (so any two samples that agree on them give the same),
\* and the per-service total is the sum of only that service's credits.
C16_NoCrossServiceMixing ==
    /\ RollingDone =>
         \A sv \in ServicesIn(df) :
            TotalsOfService(sv) \in TotalsOutcomes(OnlyService(df, sv))
    /\ GrowthDone =>
         \A sv \in ServicesIn(df) :
            /\ SelectSeq(projection_df, LAMBDA r : r.service_type = sv)
                 = calculate_growth_projection(OnlyService(df, sv), gp_in.growth_rate,
                                               gp_in.projection_months, gp_in.credit_cost)
            /\ Len(MonthOneRows(sv)) = 1
            /\ NumEq(NumMulInt(MonthOneRows(sv)[1].projected_credits, 100),
                     NumOfInt(TotalCredits(df, sv) * (100 + gp_in.growth_rate)))

\* two services on the same day, one with credits and one without
C16_Witness ==
    /\ RollingDone
    /\ Len(totals_df) = 2
    /\ totals_df[1].SERVICE_TYPE # totals_df[2].SERVICE_TYPE
    /\ totals_df[1].DATE = totals_df[2].DATE
    /\ totals_df[1].credits_30d_total = 1
    /\ totals_df[2].credits_30d_total = 0

(***************************************************************************)
(* State machine: the calculations that divide, applied to a sample or to  *)
(* the scaler's arguments                                                  *)
(***************************************************************************)
\* up to MaxRollRows rows in any order; users, operations and credits may be 0
RatioSamples ==
    LET rowSet == {UsageRow(d, sv, u, o, c) :
                     d \in 1..MaxRollDate, sv \in Services,
                     u \in 0..1, o \in 0..1, c \in 0..1}
    IN  UNION {[1..k -> rowSet] : k \in 0..MaxRollRows}

PocArgs ==
    [current_monthly_cost : {RInt(0), RInt(90), RInt(500)},
     current_users : {RInt(0), R(1, 2), RInt(3), RInt(10)},
     multiplier_key : {LightPOC, StandardPOC, HeavyPOC, Custom},
     custom_user_mult : {NoneArg, Some(RInt(0)), Some(RInt(2))},
     custom_usage_mult : {NoneArg, Some(RInt(0)), Some(R(3, 2))}]

InitRatios ==
    /\ \/ /\ df \in {Frame(rows) : rows \in RatioSamples}
          /\ gp_in \in [growth_rate : {-100, 25}, projection_months : {1}, credit_cost : {300}]
          /\ poc_in = NoPocArgs
       \/ /\ df = None
          /\ gp_in = NoGrowthArgs
          /\ poc_in \in PocArgs
    /\ last = "start"
    /\ maturity = NoAssessment
    /\ ci_in = NoIntervalArgs
    /\ ci_out = NoInterval
    /\ projection_df = <<>>
    /\ raised = ""
    /\ totals_df = <<>>
    /\ poc_out = NoPocProjection
    /\ requests_df = <<>>
    /\ metrics = <<>>
    /\ forecast_in = NoForecastArgs
    /\ forecast = NoForecast
    /\ AppAtStart

\* the growth projection of the sample at hand
ProjectSample ==
    /\ ~df.none
    /\ CalculateGrowthProjection

CalculatePocToProdProjection ==
    /\ last = "start"
    /\ poc_in # NoPocArgs
    /\ poc_out' = calculate_poc_to_prod_projection(
                      poc_in.current_monthly_cost, poc_in.current_users, poc_in.multiplier_key,
                      poc_in.custom_user_mult, poc_in.custom_usage_mult)
    /\ last' = "calculate_poc_to_prod_projection"
    /\ raised' = ""
    /\ UNCHANGED <<appVars, df, maturity, ci_in, ci_out, gp_in, projection_df,
                   totals_df, poc_in, requests_df, metrics, forecast_in, forecast>>

ShowCostPerUserCalculator ==
    /\ last = "start"
    /\ ~df.none
    /\ requests_df' = CostPerRequestTable(df, gp_in.credit_cost)
    /\ last' = "show_cost_per_user_calculator"
    /\ raised' = ""
    /\ UNCHANGED <<appVars, df, maturity, ci_in, ci_out, gp_in, projection_df,
                   totals_df, poc_in, poc_out, metrics, forecast_in, forecast>>

ShowExecutiveSummary ==
    /\ last = "start"
    /\ ~df.none
    /\ maturity' = assess_data_maturity(df)
    /\ metrics' = ExecutiveSummaryMetrics(df, gp_in.credit_cost)
    /\ last' = "show_executive_summary"
    /\ raised' = ""
    /\ UNCHANGED <<appVars, df, ci_in, ci_out, gp_in, projection_df,
                   totals_df, poc_in, poc_out, requests_df, forecast_in, forecast>>

ShowSummaryReport ==
    /\ last = "start"
    /\ ~df.none
    /\ metrics' = SummaryReportMetrics(df, gp_in.credit_cost)
    /\ last' = "show_summary_report"
    \* after the metrics the page groups its 12-month projection by 'month': the
    \* projection of a sample without rows is a frame without columns
    /\ raised' = IF df.rows = <<>> THEN "KeyError" ELSE ""
    /\ UNCHANGED <<appVars, df, maturity, ci_in, ci_out, gp_in, projection_df,
                   totals_df, poc_in, poc_out, requests_df, forecast_in, forecast>>

\* the rolling totals of the sample at hand
RollSample ==
    /\ ~df.none
    /\ Calculate30DayTotals

NextRatios ==
    \/ ProjectSample
    \/ RollSample
    \/ CalculatePocToProdProjection
    \/ ShowCostPerUserCalculator
    \/ ShowExecutiveSummary
    \/ ShowSummaryReport

SpecRatios == InitRatios /\ [][NextRatios]_vars

(***************************************************************************)
(* Claims about the ratios (checked under SpecRatios)                      *)
(***************************************************************************)
PocDone == last = "calculate_poc_to_prod_projection"
IsZero(x) == x = Finite(RInt(0))

ForecastRows(n, s, gap, pattern, extra) ==
    LET own == [i \in 1..n |->
                  LET k == n - i + 1
                      d == s + (k - 1) + (IF gap /\ k > 1 THEN 1 ELSE 0)
                      c == CASE pattern = "flat" -> 2
                             [] pattern = "up" -> k
                             [] pattern = "down" -> 2 * n - k
                             [] pattern = "bumpy" -> k % 3
                  IN  UsageRow(d, "Cortex Analyst", 1, 1, c)]
    IN  IF extra /\ n >= 1 THEN own \o <<UsageRow(s, "Cortex Search", 1, 1, 1)>> ELSE own

ForecastSamples ==
    {Frame(ForecastRows(n, s, gap, pattern, extra)) :
        n \in 0..MaxForecastPoints, s \in {1, 20}, gap \in BOOLEAN,
        pattern \in {"flat", "up", "down", "bumpy"}, extra \in BOOLEAN} \cup {None}

\* forecast rows of the view at some of the offsets from its first date
MLOffsets == {90, 91, 92, 152, 153, 731, 732}
MLRows(T) ==
    LET offsets == Ascending({0} \cup T)
    IN  [j \in 1..Len(offsets) |->
            LET o == offsets[j]
            IN  ForecastRow(IF o % 2 = 0 THEN "Cortex Analyst" ELSE "Cortex Search",
                            10 + o, 1 + (o % 5), o % 5, 2 + (o % 5))]

SliderMonths == SLIDER_MIN..SLIDER_MAX
ShortMonths == {m \in SliderMonths : m <= MaxForecastMonths}

ForecastArgs(source, months, view) ==
    [data_source |-> source, credit_cost |-> 300, projection_months |-> months, view |-> view]

InitForecast ==
    /\ \/ /\ df \in ForecastSamples
          /\ \E m \in ShortMonths : forecast_in = ForecastArgs(UploadCSV, m, NoView)
       \/ /\ df \in ForecastSamples
          /\ \E m \in ShortMonths : \E st \in {"ok", "missing", "error"} :
                forecast_in = ForecastArgs(QueryViews, m, [status |-> st, rows |-> <<>>])
       \/ /\ df \in {None, Frame(ForecastRows(7, 1, FALSE, "up", FALSE))}
          /\ \E m \in SliderMonths : \E T \in SUBSET MLOffsets :
                forecast_in = ForecastArgs(QueryViews, m, [status |-> "ok", rows |-> MLRows(T)])
       \/ /\ df = Frame(ForecastRows(MaxForecastPoints, 20, TRUE, "bumpy", TRUE))
          /\ \E m \in SliderMonths : forecast_in = ForecastArgs(UploadCSV, m, NoView)
    /\ last = "start"
    /\ maturity = NoAssessment
    /\ ci_in = NoIntervalArgs
    /\ ci_out = NoInterval
    /\ gp_in = NoGrowthArgs
    /\ projection_df = <<>>
    /\ raised = ""
    /\ totals_df = <<>>
    /\ poc_in = NoPocArgs
    /\ poc_out = NoPocProjection
    /\ requests_df = <<>>
    /\ metrics = <<>>
    /\ forecast = NoForecast
    /\ AppAtStart

Show12MonthForecast ==
    /\ last = "start"
    /\ forecast' = show_12_month_forecast(forecast_in.data_source, forecast_in.credit_cost, df,
                                          forecast_in.projection_months, forecast_in.view)
    /\ last' = "show_12_month_forecast"
    /\ raised' = ""
    /\ UNCHANGED <<appVars, df, maturity, ci_in, ci_out, gp_in, projection_df,
                   totals_df, poc_in, poc_out, requests_df, metrics, forecast_in>>

NextForecast == Show12MonthForecast

SpecForecast == InitForecast /\ [][NextForecast]_vars

(***************************************************************************)
(* Claims about the forecast page (checked under SpecForecast)             *)
(***************************************************************************)
ForecastDone == last = "show_12_month_forecast"

Shown(tag) == \E i \in 1..Len(forecast.ui) : forecast.ui[i] = tag
MLShown == Shown("monthly forecast (ML)")
FallbackShown == Shown("monthly forecast (fallback)")
NotEnoughData == Shown("warning: not enough historical data points")
NoHistory == Shown("warning: no historical data")
Refused == NotEnoughData \/ NoHistory

\* the ML forecast source returned at least one row
UsableML ==
    /\ forecast_in.data_source = QueryViews
    /\ forecast_in.view.status = "ok"
    /\ forecast_in.view.rows # <<>>

\* the daily-total points of the sample: one per distinct date
Points(frame) == IF frame.none THEN 0 ELSE Cardinality(DateValues(frame))
PointDates(frame) == Ascending(DateValues(frame))
PointValue(frame, d) ==
    SumOver({i \in 1..Len(frame.rows) : frame.rows[i].DATE = d},
            [i \in 1..Len(frame.rows) |-> frame.rows[i].TOTAL_CREDITS])

\* C17: the fallback refuses whenever the sample aggregates to fewer than 7
\* distinct daily-total points (one per date, summed across services): it
\* signals that there is not enough data and produces no fit, no extrapolated
\* value and no monthly table; with 7 or more points it always forecasts.
C17_RefusesShortSeries ==
    (ForecastDone /\ ~UsableML) =>
        /\ Points(df) < MIN_POINTS =>
             /\ Refused
             /\ NotEnoughData <=> Points(df) > 0
             /\ ~forecast.fitted
             /\ forecast.fit = NoFit
             /\ forecast.proj = <<>>
             /\ forecast.monthly = <<>>
             /\ ~FallbackShown
        /\ Points(df) >= MIN_POINTS =>
             /\ ~Refused
             /\ forecast.fitted
             /\ Len(forecast.proj) = forecast.projection_days
             /\ forecast.monthly # <<>>
             /\ FallbackShown

\* seven rows on six dates: still refused
C17_Witness ==
    /\ ForecastDone
    /\ forecast_in.data_source = UploadCSV
    /\ Len(df.rows) = 7
    /\ Points(df) = 6
    /\ NotEnoughData
    /\ forecast.proj = <<>>

\* C18: the fallback is computed only when no usable ML forecast exists (an
\* upload, a failed fetch or no rows); whenever the ML source returns a row
\* the ML path renders and returns and the fallback is never computed; each
\* call ends in exactly one of ML forecast shown, fallback shown, refusal.
C18_FallbackOnlyWithoutML ==
    ForecastDone =>
        /\ (forecast.fitted \/ FallbackShown \/ Refused) => ~UsableML
        /\ UsableML =>
             /\ MLShown
             /\ forecast.ml_monthly # <<>>
             /\ ~forecast.fitted
             /\ forecast.proj = <<>>
             /\ forecast.monthly = <<>>
        /\ Cardinality({i \in 1..Len(forecast.ui) :
                          forecast.ui[i] \in {"monthly forecast (ML)",
                                              "monthly forecast (fallback)",
                                              "warning: not enough historical data points",
                                              "warning: no historical data"}}) = 1

\* the view holds forecast rows while the loaded sample could be fitted
C18_Witness ==
    /\ ForecastDone
    /\ UsableML
    /\ Points(df) = 7
    /\ MLShown
    /\ ~FallbackShown
    /\ forecast.proj = <<>>

\* the credits of the view's rows less than days after its first date
MLCreditsWithin(days) ==
    LET rows == forecast_in.view.rows
    IN  SeqSum([i \in 1..Len(rows) |->
                   IF rows[i].FORECAST_DATE < rows[1].FORECAST_DATE + days
                   THEN rows[i].FORECAST_CREDITS ELSE 0])

MLCreditsShown ==
    RSumOver(1..Len(forecast.ml_monthly),
             [j \in 1..Len(forecast.ml_monthly) |-> forecast.ml_monthly[j].FORECAST_CREDITS])

\* C19 as stated: for every number of months (3..24) the number of days the
\* forecast extrapolates, and the horizon that filters the ML forecast, is
\* round(months * 30.5).
C19_DaysRounded ==
    ForecastDone =>
        LET days == projection_days_rounded(forecast_in.projection_months)
        IN  /\ forecast.projection_days = days
            /\ forecast.fitted => Len(forecast.proj) = days
            /\ MLShown => MLCreditsShown = RInt(MLCreditsWithin(days))

\* C19 as the code has it: the number of days is int(months * 30.5), the
\* product rounded down (91 for 3 months); for an even number of months the
\* product is whole.
C19_DaysTruncated ==
    ForecastDone =>
        LET days == forecast.projection_days
            m == forecast_in.projection_months
        IN  /\ 2 * days <= 61 * m
            /\ 61 * m < 2 * days + 2
            /\ m % 2 = 0 => 2 * days = 61 * m
            /\ forecast.fitted => Len(forecast.proj) = days
            /\ MLShown => MLCreditsShown = RInt(MLCreditsWithin(days))

\* three months: 91 days extrapolated, not 92
C19_Witness ==
    /\ ForecastDone
    /\ forecast_in.projection_months = 3
    /\ forecast.fitted
    /\ forecast.projection_days = 91
    /\ Len(forecast.proj) = 91

\* C20: every extrapolated daily value is max(0, intercept + slope * x), x
\* going on from the fitted series' positions as n, n+1, ...; so no daily
\* value, no monthly FORECAST_CREDITS and no monthly cost is negative, even
\* with a negative slope; each extrapolated day is counted in exactly one
\* calendar-month bucket, the one of its extrapolated date.
C20_FlooredExtrapolation ==
    /\ (ForecastDone /\ forecast.fitted) =>
         LET dates == PointDates(df)
             n == Len(dates)
             a == forecast.fit.intercept
             b == forecast.fit.slope
             line(x) == RAdd(a, RMul(b, RInt(x)))
             residual == [i \in 1..n |-> RSub(RInt(PointValue(df, dates[i])), line(i - 1))]
             proj == forecast.proj
             monthly == forecast.monthly
         IN  \* the fit is the least-squares line through (0, y0) .. (n-1, y(n-1))
             /\ RSumOver(1..n, residual) = RInt(0)
             /\ RSumOver(1..n, [i \in 1..n |-> RMul(RInt(i - 1), residual[i])]) = RInt(0)
             /\ \A k \in 1..Len(proj) :
                  /\ proj[k].DATE = dates[n] + k
                  /\ RLe(RInt(0), proj[k].FORECAST_CREDITS)
                  /\ proj[k].FORECAST_CREDITS =
                       (IF RLe(RInt(0), line(n + k - 1)) THEN line(n + k - 1) ELSE RInt(0))
                  /\ Cardinality({j \in 1..Len(monthly) :
                                    monthly[j].MONTH = to_period_M(proj[k].DATE)}) = 1
             /\ \A j \in 1..Len(monthly) :
                  /\ RLe(RInt(0), monthly[j].FORECAST_CREDITS)
                  /\ RLe(RInt(0), monthly[j].FORECAST_COST_USD)
                  /\ monthly[j].FORECAST_COST_USD =
                       RMul(monthly[j].FORECAST_CREDITS, R(forecast_in.credit_cost, 100))
                  /\ monthly[j].FORECAST_CREDITS =
                       RSumOver({k \in 1..Len(proj) : to_period_M(proj[k].DATE) = monthly[j].MONTH},
                                [k \in 1..Len(proj) |-> proj[k].FORECAST_CREDITS])
                  /\ j > 1 => monthly[j - 1].MONTH < monthly[j].MONTH
    \* the calendar of 2025 and 2026: 31 January, 1 February, 28 February,
    \* 1 March, 31 December, 1 January
    /\ to_period_M(31) = 1
    /\ to_period_M(32) = 2
    /\ to_period_M(59) = 2
    /\ to_period_M(60) = 3
    /\ to_period_M(365) = 12
    /\ to_period_M(366) = 13

\* a declining series: the line is still positive on the first extrapolated
\* days and is floored at zero later
C20_Witness ==
    /\ ForecastDone
    /\ forecast.fitted
    /\ forecast.fit.slope = RInt(-1)
    /\ forecast.proj[1].FORECAST_CREDITS = RInt(6)
    /\ forecast.proj[7].FORECAST_CREDITS = RInt(0)
    /\ forecast.proj[91].FORECAST_CREDITS = RInt(0)
    /\ Len(forecast.monthly) = 4
    /\ forecast.monthly[1].FORECAST_CREDITS = RInt(21)
    /\ forecast.monthly[2].FORECAST_CREDITS = RInt(0)

(***************************************************************************)
(* Claims about the POC-to-production scaler (checked under SpecRatios)    *)
(***************************************************************************)
\* C21: the scaler uses the preset table (Light POC: users x20, usage x1.5;
\* Standard POC: x10, x1.2; Heavy POC: x4, x1.0) and returns projected_users =
\* currentUsers * userMult, projected_monthly_cost = currentMonthlyCost *
\* userMult * usageMult, projected_annual_cost = 12 * projected_monthly_cost
\* and cost_per_user = projected_monthly_cost / projected_users when
\* projected_users > 0, else 0; cost 500, 10 users, Heavy POC give 40 users,
\* 2000 a month, 24000 a year.
C21_PresetScaling ==
    PocDone =>
        LET um == poc_out.user_multiplier
            us == poc_out.usage_multiplier
        IN  /\ poc_in.multiplier_key = LightPOC => (um = RInt(20) /\ us = R(15, 10))
            /\ poc_in.multiplier_key = StandardPOC => (um = RInt(10) /\ us = R(12, 10))
            /\ poc_in.multiplier_key = HeavyPOC => (um = RInt(4) /\ us = RInt(1))
            /\ poc_out.current_users = poc_in.current_users
            /\ poc_out.current_monthly_cost = poc_in.current_monthly_cost
            /\ poc_out.projected_users = RMul(poc_in.current_users, um)
            /\ poc_out.projected_monthly_cost =
                 RMul(poc_in.current_monthly_cost, RMul(um, us))
            /\ poc_out.projected_annual_cost = RMul(RInt(12), poc_out.projected_monthly_cost)
            /\ poc_out.projected_users.num > 0 =>
                 poc_out.cost_per_user =
                    Finite(RDiv(poc_out.projected_monthly_cost, poc_out.projected_users))
            /\ poc_out.projected_users.num <= 0 => IsZero(poc_out.cost_per_user)
            /\ (/\ poc_in.current_monthly_cost = RInt(500)
                /\ poc_in.current_users = RInt(10)
                /\ poc_in.multiplier_key = HeavyPOC) =>
                 /\ poc_out.projected_users = RInt(40)
                 /\ poc_out.projected_monthly_cost = RInt(2000)
                 /\ poc_out.projected_annual_cost = RInt(24000)

\* a Standard POC of 10 users at 500 a month: 100 users, 6000 a month, 60 each
C21_Witness ==
    /\ PocDone
    /\ poc_in.current_monthly_cost = RInt(500)
    /\ poc_in.current_users = RInt(10)
    /\ poc_in.multiplier_key = StandardPOC
    /\ poc_out.projected_users = RInt(100)
    /\ poc_out.projected_monthly_cost = RInt(6000)
    /\ poc_out.projected_annual_cost = RInt(72000)
    /\ poc_out.cost_per_user = Finite(RInt(60))

\* what the caller supplied for a multiplier, if anything other than 0
Supplied(x) == x # NoneArg /\ x[1].num # 0

\* C29: with scenario Custom the scaler uses a supplied non-zero multiplier
\* exactly and 1 for each omitted one; a supplied 0 counts as omitted and
\* becomes 1, so user_multiplier and usage_multiplier are never 0 (the preset
\* table's Custom entry plays no part in the result).
C29_CustomMultipliers ==
    (PocDone /\ poc_in.multiplier_key = Custom) =>
        /\ Supplied(poc_in.custom_user_mult) =>
             poc_out.user_multiplier = poc_in.custom_user_mult[1]
        /\ ~Supplied(poc_in.custom_user_mult) => poc_out.user_multiplier = RInt(1)
        /\ Supplied(poc_in.custom_usage_mult) =>
             poc_out.usage_multiplier = poc_in.custom_usage_mult[1]
        /\ ~Supplied(poc_in.custom_usage_mult) => poc_out.usage_multiplier = RInt(1)
        /\ poc_out.user_multiplier.num # 0
        /\ poc_out.usage_multiplier.num # 0
        /\ poc_out.projected_users = RMul(poc_in.current_users, poc_out.user_multiplier)

\* users x0 supplied, usage x1.5 supplied: the users multiplier becomes 1
C29_Witness ==
    /\ PocDone
    /\ poc_in.multiplier_key = Custom
    /\ poc_in.custom_user_mult = Some(RInt(0))
    /\ poc_in.custom_usage_mult = Some(R(3, 2))
    /\ poc_in.current_users = RInt(3)
    /\ poc_out.user_multiplier = RInt(1)
    /\ poc_out.usage_multiplier = R(3, 2)
    /\ poc_out.projected_users = RInt(3)

(***************************************************************************)
(* The projection pages: show_poc_to_production and show_cost_projections  *)
(***************************************************************************)
MaxPageDays == 4        \* most distinct days in a sample handed to a page

\* the digits of a + b + carry, for two digit sequences (least significant first)
RECURSIVE AddDigits(_, _, _)
AddDigits(a, b, carry) ==
    IF a = <<>> /\ b = <<>>
    THEN NatDigits(carry)
    ELSE LET x == IF a = <<>> THEN 0 ELSE Head(a)
             y == IF b = <<>> THEN 0 ELSE Head(b)
             t == x + y + carry
         IN  <<t % 10>> \o AddDigits(IF a = <<>> THEN a ELSE Tail(a),
                                     IF b = <<>> THEN b ELSE Tail(b), t \div 10)

\* the sum of two values that are not negative (costs of a growth of 0% or more)
NumAdd(x, y) ==
    LET e == IF x.e > y.e THEN x.e ELSE y.e
        xn == BigShift(BigMulInt(x.n, y.k), 2 * (e - x.e))
        yn == BigShift(BigMulInt(y.n, x.k), 2 * (e - y.e))
    IN  Num([neg |-> FALSE, mag |-> AddDigits(xn.mag, yn.mag, 0)], x.k * y.k, e)

\* the sum of q[lo..hi], halving the range
RECURSIVE NumSumBetween(_, _, _)
NumSumBetween(q, lo, hi) ==
    IF lo > hi THEN NumOfInt(0)
    ELSE IF lo = hi THEN q[lo]
    ELSE LET mid == (lo + hi) \div 2
         IN  NumAdd(NumSumBetween(q, lo, mid), NumSumBetween(q, mid + 1, hi))

NumSum(q) == NumSumBetween(q, 1, Len(q))

\* the rows of a projection that satisfy rows['month'] == month, in order
RowsOfMonth(rows, month) == SelectSeq(rows, LAMBDA row : row.month = month)

\* projection_df.groupby('month')['projected_cost_usd'].sum(): one total a month
monthly_totals(projection, projection_months) ==
    [m \in 1..projection_months |->
        LET rows == RowsOfMonth(projection, m)
        IN  NumSum([i \in 1..Len(rows) |-> rows[i].projected_cost_usd])]

Declined(name) == [name |-> name, declined |-> TRUE, figures |-> <<>>]
Presented(name, figures) == [name |-> name, declined |-> FALSE, figures |-> <<figures>>]

\* the page goes on to the scaler whatever the assessment says
show_poc_to_production_ungated(frame, credit_cost, scenario, custom_user_mult, custom_usage_mult) ==
    LET assessed == assess_data_maturity(frame)
        days == assessed.days
        total_credits == SeqSum(Column(frame, "TOTAL_CREDITS"))
        avg_daily_credits == IF days > 0 THEN R(total_credits, days) ELSE RInt(0)
        current_monthly_cost == RMul(RMul(avg_daily_credits, RInt(30)), R(credit_cost, 100))
        current_users == mean(Column(frame, "DAILY_UNIQUE_USERS")).val
    IN  Presented("show_poc_to_production",
                  calculate_poc_to_prod_projection(current_monthly_cost, current_users, scenario,
                                                   custom_user_mult, custom_usage_mult))

show_poc_to_production(frame, credit_cost, scenario, custom_user_mult, custom_usage_mult) ==
    LET assessed == assess_data_maturity(frame)
        days == assessed.days
        total_credits == SeqSum(Column(frame, "TOTAL_CREDITS"))
        avg_daily_credits == IF days > 0 THEN R(total_credits, days) ELSE RInt(0)
        current_monthly_cost == RMul(RMul(avg_daily_credits, RInt(30)), R(credit_cost, 100))
        current_users == mean(Column(frame, "DAILY_UNIQUE_USERS")).val
    IN  IF ~assessed.ready_for_projection
        THEN Declined("show_poc_to_production")
        ELSE Presented("show_poc_to_production",
                       calculate_poc_to_prod_projection(current_monthly_cost, current_users,
                                                        scenario, custom_user_mult,
                                                        custom_usage_mult))

\* the three cost metrics under "Growth-Based Cost Projections"; the function
\* never calls assess_data_maturity
show_cost_projections(frame, credit_cost, growth_rate, projection_months) ==
    LET projection == calculate_growth_projection(frame, growth_rate, projection_months,
                                                  credit_cost)
        totals == monthly_totals(projection, projection_months)
    IN  Presented("show_cost_projections",
                  [month_1_cost |-> IF Len(totals) > 0 THEN totals[1] ELSE NumOfInt(0),
                   month_12_cost |-> IF Len(totals) >= 12 THEN totals[12] ELSE NumOfInt(0),
                   total_year_cost |-> NumSum(totals)])

\* n days, latest first, one row a day for one service and, if both, a row
\* of a second service on the earliest day
PageRows(n, credits, users, both) ==
    [i \in 1..(n + (IF both THEN 1 ELSE 0)) |->
        IF i <= n THEN UsageRow(n + 1 - i, "Cortex Analyst", users, 1, credits)
        ELSE UsageRow(1, "Cortex Search", 1, 1, 1)]

PageSamples ==
    {Frame(PageRows(n, c, u, both)) :
        n \in 1..MaxPageDays, c \in 0..MaxCredits, u \in 0..MaxUsers, both \in BOOLEAN}

\* what the sliders and the scenario box of the two pages can hold
PageGrowthArgs ==
    [growth_rate : {0, 25, 100}, projection_months : {SLIDER_MIN, 12}, credit_cost : {300}]
PageScenarios ==
    [current_monthly_cost : {RInt(0)}, current_users : {RInt(0)},
     multiplier_key : {LightPOC, StandardPOC, HeavyPOC}, custom_user_mult : {NoneArg},
     custom_usage_mult : {NoneArg}]
    \cup [current_monthly_cost : {RInt(0)}, current_users : {RInt(0)},
          multiplier_key : {Custom}, custom_user_mult : {Some(RInt(10))},
          custom_usage_mult : {Some(R(1, 2)), Some(RInt(1))}]

InitPages ==
    /\ df \in PageSamples
    /\ gp_in \in PageGrowthArgs
    /\ poc_in \in PageScenarios
    /\ last = "start"
    /\ maturity = NoAssessment
    /\ ci_in = NoIntervalArgs
    /\ ci_out = NoInterval
    /\ projection_df = <<>>
    /\ raised = ""
    /\ totals_df = <<>>
    /\ poc_out = NoPocProjection
    /\ requests_df = <<>>
    /\ metrics = <<>>
    /\ forecast_in = NoForecastArgs
    /\ forecast = NoForecast
    /\ AppAtStart

\* main hands a page no sample that is None or empty
ShowPocToProduction ==
    /\ last = "start"
    /\ ~df.none /\ df.rows # <<>>
    /\ maturity' = assess_data_maturity(df)
    /\ page' = show_poc_to_production(df, gp_in.credit_cost, poc_in.multiplier_key,
                                      poc_in.custom_user_mult, poc_in.custom_usage_mult)
    /\ last' = "show_poc_to_production"
    /\ raised' = ""
    /\ UNCHANGED <<df, ci_in, ci_out, gp_in, projection_df, restVars,
                   uploaded_file, now, proposal_in, proposal_text, latest_30d,
                   views, queried, user_personas_simple>>

ShowCostProjections ==
    /\ last = "start"
    /\ ~df.none /\ df.rows # <<>>
    /\ projection_df' = calculate_growth_projection(df, gp_in.growth_rate,
                                                    gp_in.projection_months, gp_in.credit_cost)
    /\ page' = show_cost_projections(df, gp_in.credit_cost, gp_in.growth_rate,
                                     gp_in.projection_months)
    /\ last' = "show_cost_projections"
    /\ raised' = ""
    /\ UNCHANGED <<df, maturity, ci_in, ci_out, gp_in, restVars,
                   uploaded_file, now, proposal_in, proposal_text, latest_30d,
                   views, queried, user_personas_simple>>

NextPages == ShowPocToProduction \/ ShowCostProjections

SpecPages == InitPages /\ [][NextPages]_vars

(***************************************************************************)
(* Claims about the projection pages (checked under SpecPages)             *)
(***************************************************************************)
PageDone == page.name # ""

\* C22: when the sample has fewer than 3 distinct days (ready_for_projection
\* false), the POC-to-production page and the growth-based cost projection
\* page both decline and present no projected numbers.
C22_PagesDeclineWhenNotReady ==
    (PageDone /\ ~assess_data_maturity(df).ready_for_projection)
        => (page.declined /\ page.figures = <<>>)

\* the part of C22 that the code keeps: the POC-to-production page declines
C22_PocPageDeclines ==
    (page.name = "show_poc_to_production" /\ days_of_data(df) < 3)
        => (page.declined /\ page.figures = <<>>)

C22_PocPageDeclined ==
    /\ page.name = "show_poc_to_production"
    /\ days_of_data(df) = 2
    /\ page.declined


\* one day of 1 credit at $3.00 growing 25% a month: the page shows a month-1
\* cost of $3.75 although the sample has a single day
C22_CostPageShowsNumbers ==
    /\ page.name = "show_cost_projections"
    /\ df = Frame(PageRows(1, 1, 1, FALSE))
    /\ gp_in.growth_rate = 25
    /\ ~page.declined
    /\ NumEq(page.figures[1].month_1_cost, Num(BigOfInt(375), 1, 1))

(***************************************************************************)
(* load_data_from_csv                                                      *)
(***************************************************************************)
MaxCsvRows == 3         \* most rows of an uploaded file

required_cols ==
    {"DATE", "SERVICE_TYPE", "DAILY_UNIQUE_USERS", "TOTAL_OPERATIONS", "TOTAL_CREDITS"}

\* df[df['TOTAL_CREDITS'] < 0]: a missing value is not below zero
negative_credits(rows) ==
    SelectSeq(rows, LAMBDA row : row.TOTAL_CREDITS # <<>> /\ row.TOTAL_CREDITS[1] < 0)

\* df[df['TOTAL_CREDITS'].notna()], each credit cell read as its number
notna(rows) ==
    LET kept == SelectSeq(rows, LAMBDA row : row.TOTAL_CREDITS # <<>>)
    IN  [i \in 1..Len(kept) |->
            UsageRow(kept[i].DATE, kept[i].SERVICE_TYPE, kept[i].DAILY_UNIQUE_USERS,
                     kept[i].TOTAL_OPERATIONS, kept[i].TOTAL_CREDITS[1])]

\* the rows with an empty credit cell kept, the cell read as 0
fillna_credits(rows) ==
    [i \in 1..Len(rows) |->
        UsageRow(rows[i].DATE, rows[i].SERVICE_TYPE, rows[i].DAILY_UNIQUE_USERS,
                 rows[i].TOTAL_OPERATIONS,
                 IF rows[i].TOTAL_CREDITS = <<>> THEN 0 ELSE rows[i].TOTAL_CREDITS[1])]

\* the rows without a credit value kept as zero
load_data_from_csv_fillna(file) ==
    IF file.read # "ok" THEN None
    ELSE IF required_cols \ file.columns # {} THEN None
    ELSE IF Len(file.rows) = 0 THEN None
    ELSE IF file.bad_date THEN None
    ELSE IF file.text_credits THEN None
    ELSE IF Len(negative_credits(file.rows)) > 0 THEN None
    ELSE Frame(fillna_credits(file.rows))

load_data_from_csv(file) ==
    IF file.read # "ok" THEN None
    ELSE IF required_cols \ file.columns # {} THEN None
    ELSE IF Len(file.rows) = 0 THEN None
    ELSE IF file.bad_date THEN None
    ELSE IF file.text_credits THEN None
    ELSE IF Len(negative_credits(file.rows)) > 0 THEN None
    ELSE Frame(notna(file.rows))

\* the i-th row of a file: day i, one service, the credit cell given
CsvRow(i, cell) ==
    [DATE |-> i, SERVICE_TYPE |-> "Cortex Analyst", DAILY_UNIQUE_USERS |-> 1,
     TOTAL_OPERATIONS |-> 1, TOTAL_CREDITS |-> cell]

CreditCells == {<<>>, <<-1>>, <<0>>, <<2>>}

CsvRowSeqs ==
    UNION {{[i \in 1..k |-> CsvRow(i, cells[i])] : cells \in [1..k -> CreditCells]} :
              k \in 0..MaxCsvRows}

\* the header as exported, in lower case, and without the credit column
Headers ==
    {required_cols,
     {"date", "service_type", "daily_unique_users", "total_operations", "total_credits"},
     required_cols \ {"TOTAL_CREDITS"}}

CsvFiles ==
    {CsvFile("ok", h, rows, FALSE, FALSE) : h \in Headers, rows \in CsvRowSeqs}
    \cup {CsvFile(read, required_cols, <<>>, FALSE, FALSE) : read \in {"EmptyDataError", "ParserError"}}
    \cup {CsvFile("ok", required_cols, <<CsvRow(1, <<1>>)>>, bad, text) : bad, text \in BOOLEAN}

InitUpload ==
    /\ df = None
    /\ last = "start"
    /\ maturity = NoAssessment
    /\ ci_in = NoIntervalArgs
    /\ ci_out = NoInterval
    /\ gp_in = RollingArgs
    /\ projection_df = <<>>
    /\ raised = ""
    /\ totals_df = <<>>
    /\ poc_in = NoPocArgs
    /\ poc_out = NoPocProjection
    /\ requests_df = <<>>
    /\ metrics = <<>>
    /\ forecast_in = NoForecastArgs
    /\ forecast = NoForecast
    /\ page = NoPage
    /\ uploaded_file \in CsvFiles
    /\ now = 0
    /\ proposal_in = NoProposalArgs
    /\ proposal_text = <<>>
    /\ latest_30d = <<>>
    /\ views = NoViews
    /\ queried = <<>>
    /\ user_personas_simple = <<>>

LoadDataFromCsv ==
    /\ last = "start"
    /\ uploaded_file # NoFile
    /\ df' = load_data_from_csv(uploaded_file)
    /\ last' = "load_data_from_csv"
    /\ raised' = ""
    /\ UNCHANGED <<maturity, ci_in, ci_out, gp_in, projection_df, restVars, appVars>>

\* main goes on to the pages with the loaded sample unless it is None or empty
ShowUploaded ==
    /\ last = "load_data_from_csv"
    /\ ~df.none /\ df.rows # <<>>
    /\ maturity' = assess_data_maturity(df)
    /\ metrics' = ExecutiveSummaryMetrics(df, gp_in.credit_cost)
    /\ last' = "show_executive_summary"
    /\ raised' = ""
    /\ UNCHANGED <<appVars, df, ci_in, ci_out, gp_in, projection_df,
                   totals_df, poc_in, poc_out, requests_df, forecast_in, forecast>>

NextUpload == LoadDataFromCsv \/ ShowUploaded

SpecUpload == InitUpload /\ [][NextUpload]_vars

(***************************************************************************)
(* Claims about the upload (checked under SpecUpload)                      *)
(***************************************************************************)
Loaded == last # "start" /\ uploaded_file # NoFile

\* the number of rows of a file whose credit cell holds a value
CreditsPresent(rows) == Cardinality({i \in 1..Len(rows) : rows[i].TOTAL_CREDITS # <<>>})

\* C23: every sample that load_data_from_csv hands on has TOTAL_CREDITS >= 0
\* in every row and no missing credit: a file with a negative credit is
\* rejected as a whole (None), the rows with a missing credit are dropped,
\* not kept as zero, and a file missing a required column or with no rows
\* is rejected.
C23_UploadedCreditsValid ==
    Loaded =>
        /\ (\E i \in 1..Len(uploaded_file.rows) :
               /\ uploaded_file.rows[i].TOTAL_CREDITS # <<>>
               /\ uploaded_file.rows[i].TOTAL_CREDITS[1] < 0) => df = None
        /\ (required_cols \ uploaded_file.columns # {} \/ uploaded_file.rows = <<>>) => df = None
        /\ ~df.none =>
              /\ \A i \in 1..Len(df.rows) : df.rows[i].TOTAL_CREDITS >= 0
              /\ Len(df.rows) = CreditsPresent(uploaded_file.rows)
              /\ \A i \in 1..Len(df.rows) :
                    \E j \in 1..Len(uploaded_file.rows) :
                        /\ uploaded_file.rows[j].DATE = df.rows[i].DATE
                        /\ uploaded_file.rows[j].TOTAL_CREDITS = <<df.rows[i].TOTAL_CREDITS>>

\* a file of three rows whose middle credit is missing was loaded as the two
\* other rows and shown
C23_Witness ==
    /\ last = "show_executive_summary"
    /\ uploaded_file = CsvFile("ok", required_cols,
                               <<CsvRow(1, <<2>>), CsvRow(2, <<>>), CsvRow(3, <<0>>)>>,
                               FALSE, FALSE)
    /\ df = Frame(<<UsageRow(1, "Cortex Analyst", 1, 1, 2), UsageRow(3, "Cortex Analyst", 1, 1, 0)>>)
    /\ metrics.total_credits = 2
    /\ metrics.days_of_data = 2

(***************************************************************************)
(* Claims about the empty sample (checked under SpecRatios)                *)
(***************************************************************************)
EmptySample == ~df.none /\ df.rows = <<>>

MaxClock == 120         \* latest clock reading, in seconds
MaxCalls == 2           \* most calls of generate_proposal_text in one run
CLOCK_STEP == 30        \* seconds between two readings of the clock

\* the nearest integer to a fraction, a half going to the even neighbour
\* (the rounding of Python's format specifications)
RoundHalfEven(x) ==
    LET f == x.num \div x.den
        twice == RMul(RSub(x, RInt(f)), RInt(2))
    IN  IF RLt(twice, RInt(1)) THEN f
        ELSE IF RLt(RInt(1), twice) THEN f + 1
        ELSE IF f % 2 = 0 THEN f ELSE f + 1

\* f"${value:,.2f}": the amount as a number of cents
format_currency(value) == RoundHalfEven(RMul(value, RInt(100)))
\* f"{value:.0f}"
format_0f(value) == RoundHalfEven(value)
\* f"{value:.1f}": the value as a number of tenths
format_1f(value) == RoundHalfEven(RMul(value, RInt(10)))
\* strftime('%Y-%m-%d %H:%M'): the reading of the clock cut to its minute
strftime_minute(seconds) == seconds \div 60

Line(label, value) == [label |-> label, value |-> value]

\* the lines of the text that carry a value, in order (the rules and the
\* headings are the same in every text)
generate_proposal_text(maturity_arg, projections, assumptions, clock) ==
    <<Line("Generated", strftime_minute(clock)),
      Line("Data Confidence", <<maturity_arg.confidence_label, maturity_arg.confidence_score>>),
      Line("Analysis Period", maturity_arg.days),
      Line("Monthly Run Rate", format_currency(projections.current_monthly)),
      Line("Avg Daily Users", format_0f(projections.avg_users)),
      Line("Monthly Estimate", format_currency(projections.projected_monthly)),
      Line("Annual Estimate", format_currency(projections.projected_annual)),
      Line("Confidence Range", <<format_currency(projections.lower_bound),
                                 format_currency(projections.upper_bound)>>),
      Line("ASSUMPTIONS", assumptions),
      Line("COST BREAKDOWN BY SERVICE",
           [i \in 1..Len(projections.service_breakdown) |->
               LET item == projections.service_breakdown[i]
                   pct == IF RLt(RInt(0), projections.projected_monthly)
                          THEN RMul(RDiv(item.cost, projections.projected_monthly), RInt(100))
                          ELSE RInt(0)
               IN  <<item.service, format_currency(item.cost), format_1f(pct)>>])>>

\* what show_export_proposal passes on for n days of data, a monthly cost,
\* an average number of users and one or two services
ProposalArgs(n, monthly_cost, avg_users, two) ==
    [maturity |-> assess_data_maturity(Frame(DailyRows(n, n, 0))),
     projections |->
        [current_monthly |-> monthly_cost,
         projected_monthly |-> monthly_cost,
         projected_annual |-> RMul(monthly_cost, RInt(12)),
         lower_bound |-> RMul(monthly_cost, RInt(9)),
         upper_bound |-> RMul(monthly_cost, RInt(15)),
         avg_users |-> avg_users,
         service_breakdown |->
            IF two
            THEN <<[service |-> "Cortex Analyst", cost |-> RMul(monthly_cost, R(1, 4))],
                   [service |-> "Cortex Search", cost |-> RMul(monthly_cost, R(3, 4))]>>
            ELSE <<[service |-> "Cortex Analyst", cost |-> monthly_cost]>>],
     assumptions |-> <<"Assumes current usage patterns continue">>]

ProposalInputs ==
    {ProposalArgs(n, m, u, two) :
        n \in {1, 3, 7}, m \in {RInt(0), RInt(90), R(2501, 8)}, u \in {R(1, 2), R(3, 2), RInt(2)},
        two \in BOOLEAN}

InitProposal ==
    /\ df = None
    /\ last = "start"
    /\ maturity = NoAssessment
    /\ ci_in = NoIntervalArgs
    /\ ci_out = NoInterval
    /\ gp_in = NoGrowthArgs
    /\ projection_df = <<>>
    /\ raised = ""
    /\ totals_df = <<>>
    /\ poc_in = NoPocArgs
    /\ poc_out = NoPocProjection
    /\ requests_df = <<>>
    /\ metrics = <<>>
    /\ forecast_in = NoForecastArgs
    /\ forecast = NoForecast
    /\ page = NoPage
    /\ uploaded_file = NoFile
    /\ now = 0
    /\ proposal_in \in ProposalInputs
    /\ proposal_text = <<>>
    /\ latest_30d = <<>>
    /\ views = NoViews
    /\ queried = <<>>
    /\ user_personas_simple = <<>>

\* time passes between two calls
Tick ==
    /\ proposal_in # NoProposalArgs
    /\ now + CLOCK_STEP <= MaxClock
    /\ now' = now + CLOCK_STEP
    /\ UNCHANGED <<df, last, maturity, ci_in, ci_out, gp_in, projection_df, raised, restVars,
                   page, uploaded_file, proposal_in, proposal_text, latest_30d,
                   views, queried,
                   user_personas_simple>>

GenerateProposalText ==
    /\ proposal_in # NoProposalArgs
    /\ Len(proposal_text) < MaxCalls
    /\ proposal_text' = Append(proposal_text,
                               generate_proposal_text(proposal_in.maturity,
                                                      proposal_in.projections,
                                                      proposal_in.assumptions, now))
    /\ last' = "generate_proposal_text"
    /\ raised' = ""
    /\ UNCHANGED <<df, maturity, ci_in, ci_out, gp_in, projection_df, restVars,
                   page, uploaded_file, now, proposal_in, latest_30d,
                   views, queried,
                   user_personas_simple>>

NextProposal == Tick \/ GenerateProposalText

SpecProposal == InitProposal /\ [][NextProposal]_vars

(***************************************************************************)
(* Claims about the report assembler (checked under SpecProposal)          *)
(***************************************************************************)
\* C25: every core function is referentially transparent: two calls with
\* equal inputs return equal outputs, whenever they are made and whatever
\* was called before; among them the report assembler generate_proposal_text.
C25_EqualInputsEqualOutputs ==
    \A i, j \in 1..Len(proposal_text) : proposal_text[i] = proposal_text[j]

\* what the code keeps: two texts of equal inputs differ in the line
\* "Generated" at most
C25_EqualButForTheDate ==
    \A i, j \in 1..Len(proposal_text) :
        \A k \in 2..Len(proposal_text[i]) : proposal_text[i][k] = proposal_text[j][k]

\* two calls with equal arguments, a minute apart, returned different texts
C25_TextsDiffer ==
    /\ Len(proposal_text) = 2
    /\ proposal_text[1][1] = Line("Generated", 0)
    /\ proposal_text[2][1] = Line("Generated", 1)
    /\ proposal_in = ProposalArgs(3, R(2501, 8), R(3, 2), TRUE)
    /\ proposal_text[1][4] = Line("Monthly Run Rate", 31262)
    /\ proposal_text[1][5] = Line("Avg Daily Users", 2)

(***************************************************************************)
(* show_historical_analysis: the "30-Day Rolling Totals (Most Recent)"     *)
(***************************************************************************)
\* a row of latest_30d: the columns groupby('SERVICE_TYPE').last() took from
\* one row of the rolling totals, and the two cost columns (credit_cost in cents)
LatestRow(row, credit_cost) ==
    [SERVICE_TYPE |-> row.SERVICE_TYPE,
     DATE |-> row.DATE,
     credits_30d_total |-> row.credits_30d_total,
     operations_30d_total |-> row.operations_30d_total,
     users_30d_avg |-> row.users_30d_avg,
     cost_per_user_30d |-> row.cost_per_user_30d,
     COST_30D_USD |-> R(row.credits_30d_total * credit_cost, 100),
     COST_PER_USER_30D_USD |->
         IF row.cost_per_user_30d.kind = "finite"
         THEN Finite(RMul(row.cost_per_user_30d.val, R(credit_cost, 100)))
         ELSE row.cost_per_user_30d]

\* df_with_30d.groupby('SERVICE_TYPE').last().reset_index(): the services in
\* key order, for each the last of its rows in the order of the frame (no
\* column of the rolling totals holds a missing value)
groupby_last(rows) ==
    LET keys == SelectSeq(ServiceOrder,
                          LAMBDA sv : \E i \in 1..Len(rows) : rows[i].SERVICE_TYPE = sv)
    IN  [j \in 1..Len(keys) |->
            LET group == SelectSeq(rows, LAMBDA row : row.SERVICE_TYPE = keys[j])
            IN  group[Len(group)]]

show_historical_analysis(df_with_30d, credit_cost) ==
    IF df_with_30d = <<>> THEN <<>>
    ELSE LET latest == groupby_last(df_with_30d)
         IN  [j \in 1..Len(latest) |-> LatestRow(latest[j], credit_cost)]

\* main hands the page no sample that is None or empty
ShowHistoricalAnalysis ==
    /\ last = "start"
    /\ ~df.none /\ df.rows # <<>>
    /\ \E asc \in sort_values(df.rows, TRUE) :
         \E desc \in sort_values([p \in 1..Len(asc) |-> df.rows[asc[p]]], FALSE) :
            /\ totals_df' = calculate_30day_totals(df, asc, desc)
            /\ latest_30d' = show_historical_analysis(calculate_30day_totals(df, asc, desc),
                                                      gp_in.credit_cost)
            /\ df' = caller_df(df, asc)
    /\ last' = "show_historical_analysis"
    /\ raised' = ""
    /\ UNCHANGED <<maturity, ci_in, ci_out, gp_in, projection_df,
                   poc_in, poc_out, requests_df, metrics, forecast_in, forecast,
                   page, uploaded_file, now, proposal_in, proposal_text, views, queried,
                   user_personas_simple>>

(***************************************************************************)
(* State machine: the calculations that are handed the sample, each       *)
(* applied to it once                                                      *)
(***************************************************************************)
InitSample ==
    /\ df \in {Frame(rows) : rows \in UploadSamples \cup LongSamples}
    /\ last = "start"
    /\ maturity = NoAssessment
    /\ ci_in = NoIntervalArgs
    /\ ci_out = NoInterval
    /\ gp_in = RollingArgs
    /\ projection_df = <<>>
    /\ raised = ""
    /\ totals_df = <<>>
    /\ poc_in = NoPocArgs
    /\ poc_out = NoPocProjection
    /\ requests_df = <<>>
    /\ metrics = <<>>
    /\ forecast_in = ForecastArgs(UploadCSV, SLIDER_MIN, NoView)
    /\ forecast = NoForecast
    /\ AppAtStart

NextSample ==
    \/ Calculate30DayTotals
    \/ CalculateGrowthProjection
    \/ AssessDataMaturity
    \/ Show12MonthForecast
    \/ ShowHistoricalAnalysis

SpecSample == InitSample /\ [][NextSample]_vars

(***************************************************************************)
(* Claims about the sample as an argument (checked under SpecSample)       *)
(***************************************************************************)
\* C26: the calculations leave the sample they are given unchanged: after
\* calculate_30day_totals, calculate_growth_projection, assess_data_maturity
\* or the fallback branch of show_12_month_forecast the caller's sample has
\* the same rows in the same order with the same values as before.
C26_SampleUnchanged == [][df' = df]_vars

\* the rolling totals of a sample given latest day first: the result was
\* computed in ascending order of the dates, the sample still is as given
C26_Witness ==
    /\ last = "calculate_30day_totals"
    /\ Len(df.rows) = 2
    /\ df.rows[1].DATE = 2
    /\ df.rows[2].DATE = 1
    /\ df.rows[1].SERVICE_TYPE = df.rows[2].SERVICE_TYPE
    /\ df.rows[1].TOTAL_CREDITS = 1
    /\ df.rows[2].TOTAL_CREDITS = 1
    /\ Len(totals_df) = 2
    /\ totals_df[1].credits_30d_total = 2

\* the latest date of a service in the sample
LatestDate(sv) == SetMax({df.rows[i].DATE : i \in RowsOfService(df, sv)})
EarliestDate(sv) == SetMin({df.rows[i].DATE : i \in RowsOfService(df, sv)})

\* C27: the per-service "30-Day Rolling Totals (Most Recent)" of
\* show_historical_analysis are, for each service, the rolling values at
\* that service's latest date in the sample, for every sample with more
\* than one date per service.
C27_LatestTotalsAreMostRecent ==
    last = "show_historical_analysis" =>
        \A j \in 1..Len(latest_30d) :
            /\ latest_30d[j].DATE = LatestDate(latest_30d[j].SERVICE_TYPE)
            /\ \E k \in 1..Len(totals_df) :
                  /\ totals_df[k].SERVICE_TYPE = latest_30d[j].SERVICE_TYPE
                  /\ totals_df[k].DATE = LatestDate(latest_30d[j].SERVICE_TYPE)
                  /\ totals_df[k].credits_30d_total = latest_30d[j].credits_30d_total

\* what the code shows instead: the rolling values of each service's
\* earliest date
C27_EarliestDateShown ==
    last = "show_historical_analysis" =>
        \A j \in 1..Len(latest_30d) :
            latest_30d[j].DATE = EarliestDate(latest_30d[j].SERVICE_TYPE)

\* credits 1 on day 1 and 1 on day 2 of one service: the table shows the
\* total 1 of day 1, not the total 2 of the window that ends on day 2
C27_FirstDayShown ==
    /\ last = "show_historical_analysis"
    /\ df = Frame(<<UsageRow(1, "Cortex Analyst", 1, 1, 1), UsageRow(2, "Cortex Analyst", 1, 1, 1)>>)
    /\ Len(latest_30d) = 1
    /\ latest_30d[1].DATE = 1
    /\ latest_30d[1].credits_30d_total = 1
    /\ latest_30d[1].COST_30D_USD = RInt(3)

(***************************************************************************)
(* fetch_data_from_views                                                   *)
(***************************************************************************)
\* the phrases the function looks for in str(e).lower()
Phrases == {"does not exist", "invalid identifier", "insufficient privileges", "access denied"}

\* the branch of the snapshot's except clause an error message takes
snapshot_branch(error_msg) ==
    IF "does not exist" \in error_msg \/ "invalid identifier" \in error_msg
    THEN "not found"
    ELSE IF "insufficient privileges" \in error_msg \/ "access denied" \in error_msg
    THEN "permission denied"
    ELSE "other"

\* the second stage: the live view; every exception ends in an empty table
fetch_live(live) ==
    [queried |-> <<"snapshot", "live">>,
     df |-> IF live.status = "rows" THEN Frame(live.rows) ELSE Frame(<<>>)]

\* a permission denial at the snapshot treated like any other error
fetch_data_from_views_always_falls_back(snapshot, live) ==
    IF snapshot.status = "rows"
    THEN [queried |-> <<"snapshot">>, df |-> Frame(snapshot.rows)]
    ELSE fetch_live(live)

fetch_data_from_views(snapshot, live) ==
    IF snapshot.status = "rows"
    THEN [queried |-> <<"snapshot">>, df |-> Frame(snapshot.rows)]
    ELSE IF snapshot.status = "empty"
    THEN fetch_live(live)
    ELSE IF snapshot_branch(snapshot.error_msg) = "permission denied"
    THEN [queried |-> <<"snapshot">>, df |-> Frame(<<>>)]
    ELSE fetch_live(live)

\* what a source can answer: the given rows, no rows, or any error message
QueryResults(rows) ==
    {QueryResult("rows", rows, {}), QueryResult("empty", <<>>, {})}
    \cup {QueryResult("error", <<>>, msg) : msg \in SUBSET Phrases}

SnapshotRows == DailyRows(3, 3, 0)
LiveRows == DailyRows(2, 2, 0)

InitFetch ==
    /\ df = None
    /\ last = "start"
    /\ maturity = NoAssessment
    /\ ci_in = NoIntervalArgs
    /\ ci_out = NoInterval
    /\ gp_in = RollingArgs
    /\ projection_df = <<>>
    /\ raised = ""
    /\ totals_df = <<>>
    /\ poc_in = NoPocArgs
    /\ poc_out = NoPocProjection
    /\ requests_df = <<>>
    /\ metrics = <<>>
    /\ forecast_in = NoForecastArgs
    /\ forecast = NoForecast
    /\ page = NoPage
    /\ uploaded_file = NoFile
    /\ now = 0
    /\ proposal_in = NoProposalArgs
    /\ proposal_text = <<>>
    /\ latest_30d = <<>>
    /\ views \in [snapshot : QueryResults(SnapshotRows), live : QueryResults(LiveRows)]
    /\ queried = <<>>
    /\ user_personas_simple = <<>>

FetchDataFromViews ==
    /\ last = "start"
    /\ views # NoViews
    /\ LET fetched == fetch_data_from_views(views.snapshot, views.live)
       IN  /\ df' = fetched.df
           /\ queried' = fetched.queried
    /\ last' = "fetch_data_from_views"
    /\ raised' = ""
    /\ UNCHANGED <<maturity, ci_in, ci_out, gp_in, projection_df, restVars,
                   page, uploaded_file, now, proposal_in, proposal_text, latest_30d, views,
                   user_personas_simple>>

\* main goes on to the pages with the fetched sample unless it is empty
ShowFetched ==
    /\ last = "fetch_data_from_views"
    /\ ~df.none /\ df.rows # <<>>
    /\ maturity' = assess_data_maturity(df)
    /\ metrics' = ExecutiveSummaryMetrics(df, gp_in.credit_cost)
    /\ last' = "show_executive_summary"
    /\ raised' = ""
    /\ UNCHANGED <<appVars, df, ci_in, ci_out, gp_in, projection_df,
                   totals_df, poc_in, poc_out, requests_df, forecast_in, forecast>>

NextFetch == FetchDataFromViews \/ ShowFetched

SpecFetch == InitFetch /\ [][NextFetch]_vars

(***************************************************************************)
(* Claims about the fetch (checked under SpecFetch)                        *)
(***************************************************************************)
Fetched == last # "start" /\ views # NoViews
LiveQueried == \E i \in 1..Len(queried) : queried[i] = "live"
SnapshotDenied ==
    views.snapshot.status = "error"
    /\ snapshot_branch(views.snapshot.error_msg) = "permission denied"

\* C28: the snapshot is always tried first and its rows are returned when it
\* is non-empty; the live view is queried only when the snapshot was empty,
\* was not found, or failed with an error other than a permission denial; on
\* a permission denial at the snapshot the live view is never queried and an
\* empty table is returned; no exception escapes, and every failure path
\* returns an empty table.
C28_TwoStageFetch ==
    Fetched =>
        /\ raised = ""
        /\ ~df.none
        /\ Len(queried) >= 1 /\ queried[1] = "snapshot"
        /\ views.snapshot.status = "rows" => (df = Frame(views.snapshot.rows) /\ ~LiveQueried)
        /\ LiveQueried <=>
              \/ views.snapshot.status = "empty"
              \/ views.snapshot.status = "error" /\ ~SnapshotDenied
        /\ SnapshotDenied => (~LiveQueried /\ df = Frame(<<>>))
        /\ LiveQueried =>
              df = IF views.live.status = "rows" THEN Frame(views.live.rows) ELSE Frame(<<>>)
        /\ (views.snapshot.status # "rows" /\ views.live.status # "rows") => df = Frame(<<>>)

\* the snapshot was not found, the live view answered and its rows were shown
C28_Witness ==
    /\ last = "show_executive_summary"
    /\ views.snapshot = QueryResult("error", <<>>, {"does not exist"})
    /\ views.live = QueryResult("rows", LiveRows, {})
    /\ queried = <<"snapshot", "live">>
    /\ df = Frame(LiveRows)
    /\ metrics.days_of_data = 2

(***************************************************************************)
(* show_cost_per_user_calculator: the list of user personas                *)
(***************************************************************************)
MaxPersonas == 3        \* longest list of personas

Persona(name, count, requests_per_day) ==
    [name |-> name, count |-> count, requests_per_day |-> requests_per_day]

\* the list the page puts into the session state when it finds none
DefaultPersonas == <<Persona("Power User", 10, 50), Persona("Regular User", 30, 20)>>

\* the name of the persona added to a list of n: f'User Type {n + 1}'
UserTypeNames ==
    <<"User Type 1", "User Type 2", "User Type 3", "User Type 4", "User Type 5">>
UserType(n) == UserTypeNames[n + 1]

\* list.pop(idx) for the 0-based index idx
pop(list, idx) == [i \in 1..(Len(list) - 1) |-> IF i <= idx THEN list[i] ELSE list[i + 1]]

\* sum(p['count'] for p in st.session_state.user_personas_simple)
total_users(list) == SeqSum([i \in 1..Len(list) |-> list[i].count])

\* the Remove button shown next to every persona, of a single one too
RemoveOffered_always(list) == TRUE

\* the Remove buttons are drawn only while the list has more than one entry
RemoveOffered(list) == Len(list) > 1

InitPersonas ==
    /\ df \in {Frame(PageRows(n, 1, 1, both)) : n \in 1..2, both \in BOOLEAN}
    /\ last = "start"
    /\ maturity = NoAssessment
    /\ ci_in = NoIntervalArgs
    /\ ci_out = NoInterval
    /\ gp_in = RollingArgs
    /\ projection_df = <<>>
    /\ raised = ""
    /\ totals_df = <<>>
    /\ poc_in = NoPocArgs
    /\ poc_out = NoPocProjection
    /\ requests_df = <<>>
    /\ metrics = <<>>
    /\ forecast_in = NoForecastArgs
    /\ forecast = NoForecast
    /\ page = NoPage
    /\ uploaded_file = NoFile
    /\ now = 0
    /\ proposal_in = NoProposalArgs
    /\ proposal_text = <<>>
    /\ latest_30d = <<>>
    /\ views = NoViews
    /\ queried = <<>>
    /\ user_personas_simple = <<>>

\* the first run of the page puts the two default personas into the session
FirstRun ==
    /\ user_personas_simple = <<>>
    /\ ~df.none /\ df.rows # <<>>
    /\ requests_df' = CostPerRequestTable(df, gp_in.credit_cost)
    /\ user_personas_simple' = DefaultPersonas
    /\ last' = "show_cost_per_user_calculator"
    /\ raised' = ""
    /\ UNCHANGED <<df, maturity, ci_in, ci_out, gp_in, projection_df,
                   totals_df, poc_in, poc_out, metrics, forecast_in, forecast,
                   page, uploaded_file, now, proposal_in, proposal_text, latest_30d,
                   views, queried>>

PersonasUnchangedElsewhere ==
    UNCHANGED <<df, last, maturity, ci_in, ci_out, gp_in, projection_df, raised, restVars,
                page, uploaded_file, now, proposal_in, proposal_text, latest_30d,
                views, queried>>

\* a number input of a persona is changed (min_value=1) and the page reruns
EditPersona ==
    /\ user_personas_simple # <<>>
    /\ \E i \in 1..Len(user_personas_simple) : \E count \in {1, 10} :
          user_personas_simple' =
              [user_personas_simple EXCEPT ![i] = Persona(@.name, count, @.requests_per_day)]
    /\ PersonasUnchangedElsewhere

\* the Remove button of the persona at index idx is clicked
Remove ==
    /\ user_personas_simple # <<>>
    /\ RemoveOffered(user_personas_simple)
    /\ \E idx \in 0..(Len(user_personas_simple) - 1) :
          user_personas_simple' = pop(user_personas_simple, idx)
    /\ PersonasUnchangedElsewhere

\* the button "Add Another Persona" is clicked
AddAnotherPersona ==
    /\ user_personas_simple # <<>>
    /\ Len(user_personas_simple) < MaxPersonas
    /\ user_personas_simple' =
          Append(user_personas_simple, Persona(UserType(Len(user_personas_simple)), 10, 20))
    /\ PersonasUnchangedElsewhere

NextPersonas == FirstRun \/ EditPersona \/ Remove \/ AddAnotherPersona

SpecPersonas == InitPersonas /\ [][NextPersonas]_vars

(***************************************************************************)
(* Claims about the personas (checked under SpecPersonas)                  *)
(***************************************************************************)
PersonasSet == last = "show_cost_per_user_calculator"

\* C30: after any sequence of "Add Another Persona" and "Remove" the persona
\* list of the session holds at least one persona (it starts with two, Add
\* appends one, Remove is offered only while there is more than one), so
\* the total user count used as a divisor is at least 1.
C30_AtLeastOnePersona ==
    PersonasSet =>
        /\ Len(user_personas_simple) >= 1
        /\ \A i \in 1..Len(user_personas_simple) : user_personas_simple[i].count >= 1
        /\ total_users(user_personas_simple) >= 1

\* both default personas were removed after one was added: the added one is
\* the only persona left, with a single user
C30_Witness ==
    /\ PersonasSet
    /\ Len(user_personas_simple) = 1
    /\ user_personas_simple[1].name = UserType(2)
    /\ user_personas_simple[1].count = 1
    /\ total_users(user_personas_simple) = 1
====
